---- MODULE Spec2Model ----
(***************************************************************************)
(* Model of the wave-pattern sequencer of MotorControlSystem               *)
(* (src/data_collection_GUI.py): run_wave_pattern and its wave_thread,     *)
(* stop_wave_pattern, set_motor, update_cycle_position, and the GUI        *)
(* handler start_wave_pattern that restarts the worker processes before a  *)
(* run.                                                                    *)
(*                                                                         *)
(* Time is counted in ticks of 0.1 s.  time.sleep(d) blocks the caller for *)
(* exactly d ticks and computation takes no time: a step that is ready to  *)
(* run is taken before the clock advances.  Every behaviour of the model   *)
(* is therefore a schedule the program has with exact sleeps; the order of *)
(* steps that fall on the same instant is free.  time.sleep raises         *)
(* ValueError for a negative length.                                       *)
(*                                                                         *)
(* cycle_position is a float in the source; it is modelled as an exact     *)
(* fraction <<numerator, denominator>> in lowest terms.                    *)
(*                                                                         *)
(* The module holds several specifications over one set of variables:     *)
(*   Spec        the sequencer in time, as described above;                *)
(*   CellSpec    update_cycle_position field by field, with a reader;      *)
(*   LogSpec     the log files: the logging process statement by           *)
(*               statement, the sensor process, and the GUI process where  *)
(*               it names and writes log files (FairLogSpec: the same with *)
(*               the logging process scheduled fairly);                    *)
(*   FilterSpec  median_filter on the reading history of a load cell;      *)
(*   AcquisitionSpec  the sensor process: read_sensors over the three load *)
(*               cells and the loop that publishes its frames;             *)
(*   ForceSpec   the derivation of the moment in the three files that have *)
(*               it;                                                       *)
(*   ParamSpec   apply_wave_parameters on the entries of the wave tab;     *)
(*   WaveSpec    one run from the Start button with any cycle count, and   *)
(*               parameters applied while it runs;                         *)
(*   ProcessSpec the buttons that start and stop the worker processes.     *)
(*   MotorSpec   set_motor statement by statement, called by the wave      *)
(*               thread and by the operator, in PWM and in digital mode.   *)
(*   RunSpec     one run on every accepted set of parameters within the    *)
(*               bounds, stopped at any moment or not at all.              *)
(*   DrainSpec   the process buttons with the loops of the worker          *)
(*               processes on sensor_queue (FairDrainSpec: the same with   *)
(*               the worker processes scheduled fairly).                   *)
(* Each leaves the variables of the others at their values at rest.        *)
(***************************************************************************)
EXTENDS Integers, Sequences, FiniteSets, TLC

VARIABLES
    period, phase, latency, motor_speed, reverse, \* wave parameters (self.period ...)
    wave_running,     \* Value(c_bool): the cancellation flag of the sequencer
    logging_active,   \* Value(c_bool)
    running,          \* Value(c_bool): the worker processes' run flag
    processes,        \* MotorControlGUI.processes
    cycle_info,       \* the shared cycle cell: cycle_number, cycle_position, pattern_active
    clock_queue,      \* Queue: cycle states published to the logging process
    command_queue,    \* Queue: motor_state copies published to the logging process
    sensor_queue,     \* Queue: sensor frames published to the logging process
    logger,           \* the logging process: alive, and its locals cycle_info, motor_commands
    motor_state,      \* last (speed, direction) recorded per motor
    thr,              \* the wave threads started so far, in order of start
    gui,              \* the operator (GUI main thread): where it is in a handler
    ops,              \* number of operator commands issued so far
    obs,              \* per wave thread: history of what the thread did (observation only)
    lastIssuer        \* who issued the latest motor command, and the newest run then

(* The cycle cell seen field by field (specification CellSpec) *)
VARIABLES
    upd,              \* the update_cycle_position call in progress, or NoUpdate
    snapshot,             \* the triple a reader of the cell got last
    together          \* the triples of the updates made so far (observation only)

cellvars == <<upd, snapshot, together>>

(* The log files and the logging process in detail (specification LogSpec) *)
VARIABLES
    active_test_name, \* self.active_test_name
    log_filename,     \* self.log_filename in the GUI process
    files,            \* the data directory: the lines of each file that exists
    now,              \* the wall clock, in seconds: the timestamp of a file name
    lw,               \* locals of logging_process_func beyond those in `logger`
    wave,             \* the position of the wave thread of LogSpec
    tally             \* what the logging process and the writers did (observation only)

logvars == <<active_test_name, log_filename, files, now, lw, wave, tally>>

(* The median filter of one load cell (specification FilterSpec) *)
VARIABLES
    reading_history,     \* self.reading_history[name]
    filter_window_size,  \* self.filter_window_size
    filtered,            \* what median_filter returned for reading_history
    applied,             \* median_filter has been applied to reading_history
    every                \* every reading appended so far (nothing cut off)

filtervars == <<reading_history, filter_window_size, filtered, applied, every>>

VARIABLES
    PI_AVAILABLE,        \* the hardware libraries were imported
    load_cells,          \* the names in self.load_cells
    histories,           \* self.reading_history, a history per load cell
    latest_sensor_data,  \* self.latest_sensor_data in the sensor process
    sp,                  \* where the sensor process is
    acq                  \* what the sensor process has done so far

acqvars == <<PI_AVAILABLE, load_cells, histories, latest_sensor_data, sp, acq>>

VARIABLES
    triple,              \* three raw readings, all present
    lever_arm_length,    \* self.lever_arm_length of a SensorNode, <<>> while never assigned
    derived              \* per variant of read_sensors, the moment of triple and of triple
                         \* with its second and third reading swapped

forcevars == <<triple, lever_arm_length, derived>>

VARIABLES
    attempt              \* the last call of apply_wave_parameters: what the entries held,
                         \* how it ended and the parameters before it

applyvars == <<attempt>>

VARIABLES
    workers,             \* the worker processes that are alive, each <<target, number>>
    forked,              \* Process objects created so far
    last                 \* the last handler of the process buttons: which one, and
                         \* whether self.processes was non-empty when it began

procvars == <<workers, forked, last>>

(* set_motor statement by statement, with its callers (specification MotorSpec) *)
VARIABLES
    use_pwm,             \* self.use_pwm
    setting,             \* per caller, the call of set_motor it is in
    issued,              \* the call of set_motor that returned last (observation only)
    placed               \* the puts on command_queue so far and the last message put

motorvars == <<use_pwm, setting, issued, placed>>

(* The loops of the worker processes (specification DrainSpec) *)
VARIABLES
    where                \* per worker process, where it is in its loop

drainvars == <<where>>

(* The variables of the other specifications, which the sequencer leaves alone. *)
aside == <<cellvars, logvars, filtervars, acqvars, forcevars, applyvars, procvars, motorvars, drainvars>>

vars == <<period, phase, latency, motor_speed, reverse, wave_running, logging_active,
          running, processes, cycle_info, clock_queue, command_queue, sensor_queue,
          logger, motor_state, thr, gui, ops, obs, lastIssuer, aside>>

params == <<period, phase, latency, motor_speed, reverse>>

-----------------------------------------------------------------------------
(* Bounds of the model *)

MaxOps == 3         \* operator commands per behaviour
MaxRuns == 2        \* wave patterns started per behaviour
MaxCycles == 2      \* num_cycles is drawn from 1..MaxCycles
MaxJoinTicks == 1   \* the joins of stop_system_processes take 0..MaxJoinTicks ticks
MaxFrames == 2      \* sensor frames put on sensor_queue per behaviour of LogSpec
MaxStarts == 1      \* wave patterns started per behaviour of LogSpec
MaxSeconds == 1     \* the wall clock of LogSpec runs from second 0 to MaxSeconds
MaxRenames == 1     \* test names the operator sets per behaviour of LogSpec
MaxFaults == 1      \* failing file operations per behaviour of LogSpec
MaxWindow == 3      \* window sizes of FilterSpec are drawn from 1..MaxWindow
MaxSample == 3      \* raw readings of FilterSpec are drawn from 1..MaxSample
MaxReads == 8       \* readings one load cell takes in FilterSpec
MaxTicks == 2       \* iterations of the sensor process per behaviour of AcquisitionSpec
MaxWeight == 1      \* get_weight returns one of 0..MaxWeight in AcquisitionSpec
MaxReading == 2     \* the raw readings of ForceSpec are drawn from -MaxReading..MaxReading
MaxEntry == 5       \* the largest period entered in ParamSpec
MaxApplies == 2     \* calls of apply_wave_parameters per behaviour of ParamSpec
MaxForks == 4       \* Process objects created per behaviour of ProcessSpec
MaxCalls == 6       \* presses of the process buttons per behaviour of ProcessSpec
MaxUpdates == 2     \* update_cycle_position calls per behaviour of CellSpec, each a new triple
MaxSets == 2        \* calls of set_motor per behaviour of MotorSpec
MaxPhase == 4       \* the phase of RunSpec is drawn from 0..MaxPhase ticks
MaxLatency == 2     \* the latency of RunSpec is drawn from 0..MaxLatency ticks
MaxQueued == 2      \* frames waiting on sensor_queue in DrainSpec

(* Program constants, in ticks of 0.1 s *)
StopPreviousSleep == 5   \* time.sleep(0.5) in run_wave_pattern
FilterWindowSize == 10   \* self.filter_window_size = 10
StopNoticeSleep == 2     \* time.sleep(0.2) in stop_wave_pattern

Motors == {"motor1", "motor2"}

(* Wave parameters <<period, phase, latency>> the operator can enter, in   *)
(* ticks: period 1.0 s with phase 0.1 s, 0.3 s or 0.4 s.                   *)
ParamChoices == {<<10, 1, 1>>, <<10, 3, 2>>, <<10, 4, 2>>}
Speeds == {70}

-----------------------------------------------------------------------------
(* Exact fractions for the float arithmetic on cycle_position *)

RECURSIVE GCD(_, _)
GCD(a, b) == IF b = 0 THEN a ELSE GCD(b, a % b)

Frac(n, d) == LET g == GCD(n, d) IN <<n \div g, d \div g>>

FracAdd(x, y) == Frac(x[1] * y[2] + y[1] * x[2], x[2] * y[2])

FracLe(x, y) == x[1] * y[2] <= y[1] * x[2]

FracLt(x, y) == x[1] * y[2] < y[1] * x[2]

FracZero == <<0, 1>>
FracHalf == <<1, 2>>
FracOne == <<1, 1>>

(* A local variable of wave_thread that has not been assigned yet. *)
Unbound == <<>>

(* The sum of fractions, one of which may be an unassigned local: reading *)
(* it raises UnboundLocalError, which the sum propagates as Unbound.      *)
Sum2(x, y) == IF x = Unbound \/ y = Unbound THEN Unbound ELSE FracAdd(x, y)

Sum3(x, y, z) == Sum2(Sum2(x, y), z)

-----------------------------------------------------------------------------
(* apply_wave_parameters: the checks a parameter set must pass *)

ValidWaveParameters(per, ph, lat, spd) ==
    /\ per > 0
    /\ ph >= 0 /\ 2 * ph < per
    /\ lat >= 0 /\ 4 * lat < per
    /\ spd > 0 /\ spd <= 100

-----------------------------------------------------------------------------
(* set_motor and update_cycle_position *)

MotorAfter(name, direction, speed) ==
    [m \in Motors |->
        IF name = "both" \/ name = m
        THEN [speed |-> speed, direction |-> direction]
        ELSE motor_state[m]]

CycleRecord(position, cycle_number, active) ==
    [cycle_number |-> cycle_number, cycle_position |-> position, pattern_active |-> active]

(* A cycle state on clock_queue, with the run that published it (the run   *)
(* is for observation only; the dict on the queue has the three keys).     *)
Published(rec, run) ==
    [cycle_number |-> rec.cycle_number, cycle_position |-> rec.cycle_position,
     pattern_active |-> rec.pattern_active, run |-> run]

Stopped == [speed |-> 0, direction |-> 0]

(* Fields of record r replaced by those of record u; NoChange replaces none. *)
NoChange == <<>>

Merge(r, u) == [f \in DOMAIN r |-> IF f \in DOMAIN u THEN u[f] ELSE r[f]]

(* Which threads have not finished. *)
Live(t) == thr[t].pc # "done"

NewThread(n) ==
    [pc |-> "start", timer |-> 0, direction |-> 0, speed |-> 0, cycle |-> 0,
     num_cycles |-> n, phase_fraction |-> Unbound, latency_fraction |-> Unbound]

NewObs ==
    [lastCmd |-> [m \in Motors |-> <<>>],     \* the thread's last command per motor
     lastPub |-> CycleRecord(FracZero, 0, TRUE), \* the run's last published cycle state
     offPubs |-> 0,              \* publications of pattern_active = False
     onAfterOff |-> FALSE,       \* published pattern_active = True after a False
     cmdsAfterOff |-> 0,         \* commands issued after the first False publication
     nonzeroAfterOff |-> FALSE,  \* ... one of them with a direction other than 0
     sawFalse |-> FALSE,         \* has read wave_running as False
     nonzeroAfterFalse |-> FALSE, \* drove a motor after reading it as False
     stepAfterFalse |-> FALSE,   \* began a cycle or the final half cycle after that
     rampUps |-> 0, cycles |-> 0, rampDowns |-> 0, \* completed phases
     stopReq |-> FALSE,          \* the operator asked for a stop during the run
     stopIssued |-> FALSE,       \* stop_wave_pattern issued its (0,0) during the run
     nonzeroAfterStop |-> FALSE, \* drove a motor after that
     cleared |-> FALSE,          \* an older thread's finally cleared wave_running
     faulted |-> FALSE,          \* an exception was raised in the thread
     cmds |-> 0,                 \* commands the thread has issued
     lastName |-> "none",        \* the motor name of its last command
     lastDrive |-> [m \in Motors |-> 0], \* per motor, its last direction other than 0
     lastWait |-> 0,             \* the length of the last sleep it began
     waited |-> 0]               \* the sum of the lengths of the sleeps it began

-----------------------------------------------------------------------------
(* Observation of a thread's own commands and publications *)

ObsCmd(o, name, direction, speed) ==
    Merge(o,
      [lastCmd |-> [m \in Motors |->
                      IF name = "both" \/ name = m THEN <<direction, speed>>
                      ELSE o.lastCmd[m]],
       cmds |-> o.cmds + 1,
       lastName |-> name,
       lastDrive |-> [m \in Motors |->
                        IF (name = "both" \/ name = m) /\ direction # 0 THEN direction
                        ELSE o.lastDrive[m]],
       cmdsAfterOff |-> IF o.offPubs > 0 THEN o.cmdsAfterOff + 1 ELSE o.cmdsAfterOff,
       nonzeroAfterStop |-> o.nonzeroAfterStop \/ (o.stopIssued /\ direction # 0),
       nonzeroAfterOff |-> o.nonzeroAfterOff \/ (o.offPubs > 0 /\ direction # 0),
       nonzeroAfterFalse |-> o.nonzeroAfterFalse \/ (o.sawFalse /\ direction # 0)])

ObsPub(o, rec) ==
    Merge(o,
      [lastPub |-> rec,
       offPubs |-> IF rec.pattern_active THEN o.offPubs ELSE o.offPubs + 1,
       onAfterOff |-> o.onAfterOff \/ (rec.pattern_active /\ o.offPubs > 0)])

-----------------------------------------------------------------------------
(* wave_thread: one step that commands a motor, publishes the cycle        *)
(* position and goes to sleep.  `locals` are the thread's local variables  *)
(* the step assigns.  The step raises when the position reads an           *)
(* unassigned local (after set_motor) or when the sleep length is negative *)
(* (after update_cycle_position).                                          *)

Drive(t, name, direction, speed, cycle_number, position, duration, next, locals, seen) ==
    LET raisedPos == position = Unbound
        raised == raisedPos \/ duration < 0
        rec == CycleRecord(position, cycle_number, TRUE)
        o1 == ObsCmd(obs[t], name, direction, speed)
        o2 == IF raisedPos THEN o1 ELSE ObsPub(o1, rec)
    IN  /\ motor_state' = MotorAfter(name, direction, speed)
        /\ command_queue' = Append(command_queue, motor_state')
        /\ lastIssuer' = [by |-> t, newest |-> Len(thr), direction |-> direction]
        /\ IF raisedPos
           THEN UNCHANGED <<cycle_info, clock_queue>>
           ELSE /\ cycle_info' = rec
                /\ clock_queue' = Append(clock_queue, Published(rec, t))
        /\ thr' = [thr EXCEPT ![t] =
                     Merge(Merge(@, locals),
                           IF raised THEN [pc |-> "except", timer |-> 0]
                           ELSE [pc |-> next, timer |-> duration])]
        /\ obs' = [obs EXCEPT ![t] =
                     Merge(Merge(o2, seen),
                           [faulted |-> o2.faulted \/ raised,
                            lastWait |-> IF raised THEN o2.lastWait ELSE duration,
                            waited |-> IF raised THEN o2.waited
                                       ELSE o2.waited + duration])]
        /\ UNCHANGED <<aside, params, sensor_queue, logger, wave_running, logging_active, running, processes, gui, ops>>

(* wave_thread: the test of wave_running after a sleep. *)
Check(t, at, ifRunning, ifStopped, seen) ==
    /\ thr[t].pc = at
    /\ thr[t].timer = 0
    /\ thr' = [thr EXCEPT ![t].pc = IF wave_running THEN ifRunning ELSE ifStopped]
    /\ obs' = [obs EXCEPT ![t] = IF wave_running THEN Merge(@, seen)
                                 ELSE Merge(@, [sawFalse |-> TRUE])]
    /\ UNCHANGED <<aside, params, sensor_queue, logger, wave_running, logging_active, running, processes, cycle_info,
                   clock_queue, command_queue, motor_state, gui, ops, lastIssuer>>

(* Initial half cycle (RampUp) *)

(* The first step of the thread, always forward. *)
L803Forward(t) ==
    /\ thr[t].pc = "start"
    /\ Drive(t, "motor1", 1, motor_speed, 0, FracZero, phase, "L826",
             [direction |-> 1, speed |-> motor_speed], NoChange)

L803(t) ==
    /\ thr[t].pc = "start"
    /\ LET d == IF reverse THEN -1 ELSE 1
       IN Drive(t, "motor1", d, motor_speed, 0, FracZero, phase, "L826",
                [direction |-> d, speed |-> motor_speed], NoChange)

L826(t) == Check(t, "L826", "L831", "return", NoChange)

L831(t) ==
    /\ thr[t].pc = "L831"
    /\ LET pf == Frac(phase, period)
       IN Drive(t, "motor2", thr[t].direction, thr[t].speed, 0, pf,
                (period \div 2) - phase - latency, "L839",
                [phase_fraction |-> pf], NoChange)

L839(t) == Check(t, "L839", "L844", "return", [rampUps |-> obs[t].rampUps + 1])

(* Main cycle loop (Cycling) *)

L844(t) ==
    /\ thr[t].pc = "L844"
    /\ LET more == thr[t].cycle < thr[t].num_cycles
       IN /\ thr' = [thr EXCEPT ![t].pc = IF more /\ wave_running THEN "L849" ELSE "L905"]
          /\ obs' = [obs EXCEPT ![t].sawFalse = @ \/ (more /\ ~wave_running)]
    /\ UNCHANGED <<aside, params, sensor_queue, logger, wave_running, logging_active, running, processes, cycle_info,
                   clock_queue, command_queue, motor_state, gui, ops, lastIssuer>>

(* The cycle step that stops motor1, with the stop left out: the motor is  *)
(* driven the other way at once.                                           *)
L849Reversing(t) ==
    /\ thr[t].pc = "L849"
    /\ Drive(t, "motor1", 0 - thr[t].direction, thr[t].speed, thr[t].cycle + 1, FracHalf,
             latency, "L864", [direction |-> 0 - thr[t].direction], NoChange)

L849(t) ==
    /\ thr[t].pc = "L849"
    /\ Drive(t, "motor1", 0, 0, thr[t].cycle + 1, FracHalf, latency, "L864",
             [direction |-> -thr[t].direction],
             [stepAfterFalse |-> obs[t].stepAfterFalse \/ obs[t].sawFalse])

L864(t) == Check(t, "L864", "L868", "L905", NoChange)

L868(t) ==
    /\ thr[t].pc = "L868"
    /\ LET lf == Frac(latency, period)
       IN Drive(t, "motor1", thr[t].direction, thr[t].speed, thr[t].cycle + 1,
                Sum2(FracHalf, lf), phase, "L876",
                [latency_fraction |-> lf], NoChange)

L876(t) == Check(t, "L876", "L880", "L905", NoChange)

L880(t) ==
    /\ thr[t].pc = "L880"
    /\ Drive(t, "motor2", 0, 0, thr[t].cycle + 1,
             Sum3(FracHalf, thr[t].latency_fraction, thr[t].phase_fraction),
             latency, "L886", NoChange, NoChange)

L886(t) == Check(t, "L886", "L890", "L905", NoChange)

L890(t) ==
    /\ thr[t].pc = "L890"
    /\ LET wait_time == period - phase - 2 * latency
           lf == thr[t].latency_fraction
       IN Drive(t, "motor2", thr[t].direction, thr[t].speed, thr[t].cycle + 1,
                Sum3(FracHalf, Sum2(lf, lf), thr[t].phase_fraction),
                IF wait_time > 0 THEN wait_time ELSE 0, "L898",
                NoChange, NoChange)

L898(t) ==
    /\ thr[t].pc = "L898"
    /\ thr[t].timer = 0
    /\ IF wave_running
       THEN LET rec == CycleRecord(FracOne, thr[t].cycle + 1, TRUE)
            IN /\ cycle_info' = rec
               /\ clock_queue' = Append(clock_queue, Published(rec, t))
               /\ thr' = [thr EXCEPT ![t] = Merge(@, [pc |-> "L844", cycle |-> @.cycle + 1])]
               /\ obs' = [obs EXCEPT ![t] = Merge(ObsPub(@, rec), [cycles |-> @.cycles + 1])]
       ELSE /\ thr' = [thr EXCEPT ![t].pc = "L905"]
            /\ obs' = [obs EXCEPT ![t].sawFalse = TRUE]
            /\ UNCHANGED <<cycle_info, clock_queue>>
    /\ UNCHANGED <<aside, params, sensor_queue, logger, wave_running, logging_active, running, processes,
                   command_queue, motor_state, gui, ops, lastIssuer>>

(* Final half cycle (RampDown) *)

L905(t) ==
    /\ thr[t].pc = "L905"
    /\ thr' = [thr EXCEPT ![t].pc = IF wave_running THEN "L910" ELSE "L963"]
    /\ UNCHANGED <<aside, params, sensor_queue, logger, wave_running, logging_active, running, processes, cycle_info,
                   clock_queue, command_queue, motor_state, gui, ops, obs, lastIssuer>>

L910(t) ==
    /\ thr[t].pc = "L910"
    /\ Drive(t, "motor1", 0, 0, thr[t].num_cycles + 1, FracZero, latency, "L923",
             [direction |-> -thr[t].direction],
             [stepAfterFalse |-> obs[t].stepAfterFalse \/ obs[t].sawFalse])

L923(t) == Check(t, "L923", "L928", "return", NoChange)

L928(t) ==
    /\ thr[t].pc = "L928"
    /\ Drive(t, "motor1", thr[t].direction, thr[t].speed, thr[t].num_cycles + 1,
             thr[t].latency_fraction, phase, "L935", NoChange, NoChange)

L935(t) == Check(t, "L935", "L940", "return", NoChange)

L940(t) ==
    /\ thr[t].pc = "L940"
    /\ Drive(t, "motor2", 0, 0, thr[t].num_cycles + 1,
             Sum2(thr[t].latency_fraction, thr[t].phase_fraction),
             latency, "L946", NoChange, NoChange)

L946(t) == Check(t, "L946", "L951", "return", NoChange)

L951(t) ==
    /\ thr[t].pc = "L951"
    /\ LET lf == thr[t].latency_fraction
       IN Drive(t, "motor2", thr[t].direction, thr[t].speed, thr[t].num_cycles + 1,
                Sum3(lf, thr[t].phase_fraction, lf),
                (period \div 2) - phase - latency, "L960",
                NoChange, NoChange)

L960(t) ==
    /\ thr[t].pc = "L960"
    /\ thr[t].timer = 0
    /\ LET rec == CycleRecord(FracHalf, thr[t].num_cycles + 1, TRUE)
       IN /\ cycle_info' = rec
          /\ clock_queue' = Append(clock_queue, Published(rec, t))
          /\ obs' = [obs EXCEPT ![t] = Merge(ObsPub(@, rec), [rampDowns |-> @.rampDowns + 1])]
    /\ thr' = [thr EXCEPT ![t].pc = "L963"]
    /\ UNCHANGED <<aside, params, sensor_queue, logger, wave_running, logging_active, running, processes,
                   command_queue, motor_state, gui, ops, lastIssuer>>

(* The exits of wave_thread *)

(* Operator or thread: stop_all_motors() as the thread's own command. *)
StopAllBy(t) ==
    /\ motor_state' = MotorAfter("both", 0, 0)
    /\ command_queue' = Append(command_queue, motor_state')
    /\ lastIssuer' = [by |-> t, newest |-> Len(thr), direction |-> 0]

(* `if not self.wave_running.value: self.stop_all_motors(); return` *)
Return(t) ==
    /\ thr[t].pc = "return"
    /\ StopAllBy(t)
    /\ thr' = [thr EXCEPT ![t].pc = "finally"]
    /\ obs' = [obs EXCEPT ![t] = ObsCmd(@, "both", 0, 0)]
    /\ UNCHANGED <<aside, params, sensor_queue, logger, wave_running, logging_active, running, processes, cycle_info,
                   clock_queue, gui, ops>>

(* The end of the try block: motors stopped, pattern marked inactive. *)
L963(t) ==
    /\ thr[t].pc = "L963"
    /\ StopAllBy(t)
    /\ LET rec == [cycle_info EXCEPT !.pattern_active = FALSE]
       IN /\ cycle_info' = rec
          /\ clock_queue' = Append(clock_queue, Published(rec, t))
          /\ obs' = [obs EXCEPT ![t] = ObsPub(ObsCmd(@, "both", 0, 0), rec)]
    /\ logging_active' = FALSE
    /\ thr' = [thr EXCEPT ![t].pc = "finally"]
    /\ UNCHANGED <<aside, params, sensor_queue, logger, wave_running, running, processes, gui, ops>>

(* `except Exception`: the GUI always passes a callback. *)
Except(t) ==
    /\ thr[t].pc = "except"
    /\ logging_active' = FALSE
    /\ thr' = [thr EXCEPT ![t].pc = "finally"]
    /\ UNCHANGED <<aside, params, sensor_queue, logger, wave_running, running, processes, cycle_info, clock_queue,
                   command_queue, motor_state, gui, ops, obs, lastIssuer>>

(* A faulty `finally` that leaves out stop_all_motors(). *)
FinallyWithoutStop(t) ==
    /\ thr[t].pc = "finally"
    /\ wave_running' = FALSE
    /\ LET rec == [cycle_info EXCEPT !.pattern_active = FALSE]
       IN /\ cycle_info' = rec
          /\ clock_queue' = Append(clock_queue, Published(rec, t))
          /\ obs' = [obs EXCEPT ![t] = ObsPub(@, rec)]
    /\ logging_active' = FALSE
    /\ thr' = [thr EXCEPT ![t].pc = "done"]
    /\ UNCHANGED <<aside, params, sensor_queue, logger, running, processes, gui, ops,
                   motor_state, command_queue, lastIssuer>>

(* A faulty `finally` that leaves out the pattern_active = False update. *)
FinallyWithoutPublication(t) ==
    /\ thr[t].pc = "finally"
    /\ wave_running' = FALSE
    /\ obs' = [obs EXCEPT ![t] = ObsCmd(@, "both", 0, 0)]
    /\ StopAllBy(t)
    /\ logging_active' = FALSE
    /\ thr' = [thr EXCEPT ![t].pc = "done"]
    /\ UNCHANGED <<aside, params, sensor_queue, logger, running, processes, gui, ops,
                   cycle_info, clock_queue>>

(* `finally`: runs on every exit of wave_thread. *)
Finally(t) ==
    /\ thr[t].pc = "finally"
    /\ wave_running' = FALSE
    /\ LET rec == [cycle_info EXCEPT !.pattern_active = FALSE]
       IN /\ cycle_info' = rec
          /\ clock_queue' = Append(clock_queue, Published(rec, t))
          /\ obs' = [u \in DOMAIN obs |->
                       IF u = t THEN ObsCmd(ObsPub(obs[t], rec), "both", 0, 0)
                       ELSE IF u > t /\ Live(u) /\ wave_running
                            THEN Merge(obs[u], [cleared |-> TRUE])
                            ELSE obs[u]]
    /\ StopAllBy(t)
    /\ logging_active' = FALSE
    /\ thr' = [thr EXCEPT ![t].pc = "done"]
    /\ UNCHANGED <<aside, params, sensor_queue, logger, running, processes, gui, ops>>

-----------------------------------------------------------------------------
(* The logging process (start_logging_process.logging_process_func).  In   *)
(* this specification no sensor process produces frames, so an iteration   *)
(* finds sensor_queue empty and only takes the waiting cycle state and     *)
(* motor command.  An iteration lasts 0.01 s, a tenth of a tick.           *)

NewLogger ==
    [alive |-> TRUE,
     cycle_info |-> [cycle_number |-> 0, cycle_position |-> FracZero,
                     pattern_active |-> FALSE],
     motor_commands |-> [m \in Motors |-> Stopped],
     held |-> {},     \* the runs it has held a cycle state of (observation only)
     ended |-> {}]    \* ... a cycle state with pattern_active False

LoggingProcess ==
    /\ logger.alive
    /\ running
    /\ sensor_queue = <<>>
    /\ clock_queue # <<>> \/ command_queue # <<>>
    /\ logger' = [logger EXCEPT
                    !.cycle_info = IF clock_queue # <<>> THEN Head(clock_queue) ELSE @,
                    !.motor_commands =
                        IF command_queue # <<>> THEN Head(command_queue) ELSE @,
                    !.held = IF clock_queue # <<>>
                             THEN @ \cup {Head(clock_queue).run} ELSE @,
                    !.ended = IF clock_queue # <<>> /\ ~Head(clock_queue).pattern_active
                              THEN @ \cup {Head(clock_queue).run} ELSE @]
    /\ clock_queue' = IF clock_queue # <<>> THEN Tail(clock_queue) ELSE clock_queue
    /\ command_queue' = IF command_queue # <<>> THEN Tail(command_queue)
                        ELSE command_queue
    /\ UNCHANGED <<aside, params, sensor_queue, wave_running, logging_active, running, processes,
                   cycle_info, motor_state, thr, gui, ops, obs, lastIssuer>>

(* `while self.running.value` fails: the process ends. *)
LoggingStopped ==
    /\ logger.alive
    /\ lw.pc = "L652"
    /\ ~running
    /\ logger' = [logger EXCEPT !.alive = FALSE]
    /\ UNCHANGED <<aside, params, sensor_queue, wave_running, logging_active, running, processes,
                   cycle_info, clock_queue, command_queue, motor_state, thr, gui, ops,
                   obs, lastIssuer>>

-----------------------------------------------------------------------------
(* The operator: MotorControlGUI handlers and MotorControlSystem calls.     *)
(* The operator is a person: a command arrives at an instant of its own,   *)
(* when no step of a thread or of the logging process is pending (Quiet).  *)
(* The later steps of a handler fall where its sleeps and joins end.       *)

Sleeping(r) == r.timer > 0

Quiet ==
    /\ \A t \in DOMAIN thr : ~Live(t) \/ Sleeping(thr[t])
    /\ logger.alive => running /\ clock_queue = <<>> /\ command_queue = <<>>

OperatorReady == gui.pc = "idle" /\ Quiet /\ ops < MaxOps

(* Another wave pattern may be started. *)
RunsLeft == Len(thr) < MaxRuns

Idle == [pc |-> "idle", timer |-> 0, n |-> 0, inCycling |-> FALSE]

CyclingPcs == {"L844", "L849", "L864", "L868", "L876", "L880", "L886", "L890", "L898"}

(* Every live thread has been asked to stop by the operator. *)
StopRequested == [u \in DOMAIN obs |->
                    IF Live(u) THEN Merge(obs[u], [stopReq |-> TRUE]) ELSE obs[u]]

(* run_wave_pattern after its `if self.wave_running.value:` block: the     *)
(* flags are raised, the cycle cell is reset and published, the thread is  *)
(* started.                                                                *)
RunWaveBody(n) ==
    /\ wave_running' = TRUE
    /\ logging_active' = TRUE
    /\ cycle_info' = CycleRecord(FracZero, 0, TRUE)
    /\ clock_queue' = Append(clock_queue, Published(cycle_info', Len(thr) + 1))
    /\ thr' = Append(thr, NewThread(n))
    /\ gui' = Idle

(* MotorControlSystem.run_wave_pattern(num_cycles), called directly by a   *)
(* client of the class that has the worker processes started, as           *)
(* MotorControlGUI has.                                                    *)
RunWavePattern(n) ==
    /\ OperatorReady
    /\ RunsLeft
    /\ processes # {}
    /\ ops' = ops + 1
    /\ IF wave_running
       THEN /\ wave_running' = FALSE
            /\ gui' = [pc |-> "L763", timer |-> StopPreviousSleep, n |-> n,
                       inCycling |-> FALSE]
            /\ obs' = StopRequested
            /\ UNCHANGED <<logging_active, cycle_info, clock_queue, thr>>
       ELSE /\ RunWaveBody(n)
            /\ obs' = Append(obs, NewObs)
    /\ UNCHANGED <<aside, params, sensor_queue, logger, running, processes, command_queue, motor_state, lastIssuer>>

(* run_wave_pattern resumes after time.sleep(0.5). *)
L765 ==
    /\ gui.pc = "L763"
    /\ gui.timer = 0
    /\ RunWaveBody(gui.n)
    /\ obs' = Append(obs, NewObs)
    /\ UNCHANGED <<aside, params, sensor_queue, logger, running, processes, command_queue, motor_state, ops, lastIssuer>>

(* MotorControlGUI.start_wave_pattern: stop_system_processes(),            *)
(* start_system_processes(), run_wave_pattern(num_cycles).  With worker    *)
(* processes present the handler blocks in their joins first.              *)
StartWavePattern(n) ==
    /\ OperatorReady
    /\ RunsLeft
    /\ ops' = ops + 1
    /\ IF processes # {}
       THEN /\ running' = FALSE
            /\ logging_active' = FALSE
            /\ wave_running' = FALSE
            /\ cycle_info' = [cycle_info EXCEPT !.pattern_active = FALSE]
            /\ \E j \in 0..MaxJoinTicks :
                  gui' = [pc |-> "L1304", timer |-> j, n |-> n, inCycling |-> FALSE]
            /\ obs' = StopRequested
            /\ UNCHANGED <<processes, logger, clock_queue, thr>>
       ELSE /\ running' = TRUE
            /\ processes' = {"sensor", "logging"}
            /\ logger' = NewLogger
            /\ RunWaveBody(n)
            /\ obs' = Append(obs, NewObs)
    /\ UNCHANGED <<aside, params, sensor_queue, command_queue, motor_state, lastIssuer>>

(* start_wave_pattern after the joins (the logging process has exited):    *)
(* the process list is cleared and refilled, then run_wave_pattern runs.   *)
L1307 ==
    /\ gui.pc = "L1304"
    /\ gui.timer = 0
    /\ ~logger.alive
    /\ running' = TRUE
    /\ processes' = {"sensor", "logging"}
    /\ logger' = NewLogger
    /\ IF wave_running
       THEN /\ wave_running' = FALSE
            /\ gui' = [pc |-> "L763", timer |-> StopPreviousSleep, n |-> gui.n,
                       inCycling |-> FALSE]
            /\ obs' = StopRequested
            /\ UNCHANGED <<logging_active, cycle_info, clock_queue, thr>>
       ELSE /\ RunWaveBody(gui.n)
            /\ obs' = Append(obs, NewObs)
    /\ UNCHANGED <<aside, params, sensor_queue, command_queue, motor_state, ops, lastIssuer>>

(* MotorControlSystem.stop_wave_pattern up to its time.sleep(0.2). *)
StopWavePattern ==
    /\ OperatorReady
    /\ ops' = ops + 1
    /\ wave_running' = FALSE
    /\ gui' = [pc |-> "L1008", timer |-> StopNoticeSleep, n |-> 0,
               inCycling |-> \E t \in DOMAIN thr : thr[t].pc \in CyclingPcs]
    /\ obs' = StopRequested
    /\ UNCHANGED <<aside, params, sensor_queue, logger, logging_active, running, processes, cycle_info, clock_queue,
                   command_queue, motor_state, thr, lastIssuer>>

(* stop_wave_pattern after the sleep: stop_all_motors(), end_logging(). *)
L1009 ==
    /\ gui.pc = "L1008"
    /\ gui.timer = 0
    /\ StopAllBy(0)
    /\ logging_active' = FALSE
    /\ gui' = Idle
    /\ obs' = [u \in DOMAIN obs |->
                 IF Live(u) THEN Merge(obs[u], [stopIssued |-> TRUE]) ELSE obs[u]]
    /\ UNCHANGED <<aside, params, sensor_queue, logger, wave_running, running, processes,
                   cycle_info, clock_queue, thr, ops>>

-----------------------------------------------------------------------------
(* Time *)

(* The clock advances by one tick when nobody is ready to run. *)
Tick ==
    /\ Quiet
    /\ gui.pc = "idle" \/ Sleeping(gui)
    /\ Sleeping(gui) \/ \E t \in DOMAIN thr : Sleeping(thr[t])
    /\ thr' = [t \in DOMAIN thr |->
                 IF Sleeping(thr[t]) THEN [thr[t] EXCEPT !.timer = @ - 1] ELSE thr[t]]
    /\ gui' = IF Sleeping(gui) THEN [gui EXCEPT !.timer = @ - 1] ELSE gui
    /\ UNCHANGED <<aside, params, sensor_queue, logger, wave_running, logging_active, running, processes, cycle_info,
                   clock_queue, command_queue, motor_state, ops, obs, lastIssuer>>

-----------------------------------------------------------------------------
(* No update_cycle_position call is in progress. *)
NoUpdate == <<>>

(* The cycle cell as MotorControlSystem.__init__ creates it. *)
InitialCell == CycleRecord(FracZero, 0, FALSE)

(* The field-by-field view of the cell at rest. *)
CellIdle ==
    /\ upd = NoUpdate
    /\ snapshot = InitialCell
    /\ together = {InitialCell}

(* The test names the operator enters (set_test_name rejects an empty one). *)
TestNames == {"test", "a"}

(* The names generate_log_filename can give.  A file that does not exist   *)
(* and a file of size 0 are the same to every check of the code            *)
(* (`not os.path.exists(f) or os.path.getsize(f) == 0`, tell() == 0 after  *)
(* open(f, 'a')): both are the empty sequence of lines here.               *)
FileNames == TestNames \X (0..MaxSeconds)

(* generate_log_filename: the test name and the wall clock second. *)
generate_log_filename == <<active_test_name, now>>

(* logging_process_func before its loop: the locals at their first values. *)
(* self.log_filename is read in the logging process, a fork of the GUI     *)
(* process: it is the value the attribute had when the process started.    *)
NewLogWriter ==
    [pc |-> "L652",
     log_filename |-> log_filename,
     current_log_file |-> log_filename,
     first_write_done |-> FALSE,
     sensor_data |-> 0,       \* the frame in hand (frames are numbered from 1)
     stale |-> FALSE,         \* observation: the snapshot taken with the frame
                              \* was behind what had been published
     behind |-> FALSE]        \* observation: after the check of line 655 the
                              \* target was not the GUI's self.log_filename

NewTally ==
    [produced |-> 0,          \* frames put on sensor_queue
     consumed |-> 0,          \* frames taken from it by the logging process
     consumedOn |-> 0,        \* ... taken while logging_active was True
     enabled |-> 0,           \* ... for which it read logging_active as True
     disabled |-> 0,          \* ... for which it read logging_active as False
     rows |-> 0,              \* data rows written
     rowsOff |-> 0,           \* ... written while logging_active was False
     failed |-> 0,            \* file operations of the logging process that failed
     rowsAfterFailure |-> 0,  \* data rows written after such a failure
     staleRows |-> 0,         \* rows whose snapshot was behind what was published
     strayRows |-> 0,         \* rows of frames taken after the GUI had switched to
                              \* another file, appended to the file before
     headers |-> {},          \* files a header row was written to
     headerTwice |-> FALSE,   \* a file got a second header row
     headerOverData |-> FALSE, \* a header row was written to a file holding lines
     starts |-> 0,            \* wave patterns started
     renames |-> 0,           \* test names set
     lastPub |-> CycleRecord(FracZero, 0, FALSE),   \* the cycle state published last
     faults |-> 0]            \* file operations that failed, all writers

(* The log files and the logging process at rest: the state after          *)
(* MotorControlSystem.__init__, which names a first log file.              *)
LogIdle ==
    /\ active_test_name = "test"
    /\ log_filename = <<"test", 0>>
    /\ files = [f \in FileNames |-> <<>>]
    /\ now = 0
    /\ lw = [NewLogWriter EXCEPT !.log_filename = <<"test", 0>>,
                                 !.current_log_file = <<"test", 0>>]
    /\ wave = "none"
    /\ tally = NewTally

(* A Python value that is a number v is <<v>>, None is <<>>. *)
None == <<>>

(* The median filter at rest: no reading yet, the window of the program. *)
FilterIdle ==
    /\ reading_history = <<>>
    /\ filter_window_size = FilterWindowSize
    /\ filtered = None
    /\ applied = FALSE
    /\ every = <<>>

LoadCellNames == <<"loadcell1", "loadcell2", "loadcell3">>

(* The forces of self.latest_sensor_data as __init__ leaves them, lines     *)
(* 126-133: all 0 (a number v is <<v>>, None is <<>>; lift and moment are  *)
(* quotients <<a, b>> in every frame, here 0 / 1).                         *)
NoSensorData ==
    [raw_readings |-> <<<<0>>, <<0>>, <<0>>>>, thrust |-> <<0>>, lift |-> <<<<0, 1>>>>,
     moment |-> <<<<0, 1>>>>]

(* Nothing done yet: ticks begun, ticks completed without an error,       *)
(* frames stored in latest_sensor_data, frames put on sensor_queue, ticks  *)
(* that raised, and for the last tick what each load cell did and where    *)
(* the tick raised.                                                        *)
NewAcquisition ==
    [ticks |-> 0, clean |-> 0, stored |-> 0, put |-> 0, faults |-> 0,
     outcome |-> <<"none", "none", "none">>, fault |-> "none"]

AcqIdle ==
    /\ PI_AVAILABLE = TRUE
    /\ load_cells = {}
    /\ histories = [i \in 1..3 |-> <<>>]
    /\ latest_sensor_data = NoSensorData
    /\ sp = "none"
    /\ acq = NewAcquisition

(* The files that derive forces from three readings. *)
Variants == {"data_collection_GUI", "raspberry-pi-gui", "uart-data-collection"}

(* Nothing derived yet: per variant whether it ran, whether it raised, and *)
(* the two moments.                                                        *)
NotDerived ==
    [v \in Variants |-> [done |-> FALSE, raised |-> FALSE, direct |-> None, swapped |-> None]]

ForceIdle ==
    /\ triple = <<0, 0, 0>>
    /\ lever_arm_length = <<>>
    /\ derived = NotDerived

NoAttempt ==
    [n |-> 0, entries |-> <<0, 0, 0, 0, FALSE>>, ended |-> "none",
     before |-> <<0, 0, 0, 0, FALSE>>]

ApplyIdle == attempt = NoAttempt

NoCall == [n |-> 0, call |-> "none", had |-> FALSE]

ProcIdle ==
    /\ workers = {}
    /\ forked = 0
    /\ last = NoCall

Callers == {"wave_thread", "operator"}

NoSetting ==
    [pc |-> "idle", motor_name |-> "both", motor_names |-> <<>>, direction |-> 0,
     speed |-> 0, asked |-> 0, digital |-> FALSE, copy |-> [m \in Motors |-> Stopped],
     before |-> [m \in Motors |-> Stopped], putsBefore |-> 0, alone |-> TRUE]

NoneIssued ==
    [n |-> 0, by |-> "operator", motor_name |-> "both", direction |-> 0, asked |-> 0,
     digital |-> FALSE, wrote |-> Stopped, before |-> [m \in Motors |-> Stopped],
     after |-> [m \in Motors |-> Stopped], message |-> [m \in Motors |-> Stopped],
     puts |-> 0, alone |-> TRUE]

NonePlaced == [n |-> 0, message |-> [m \in Motors |-> Stopped]]

MotorIdle ==
    /\ use_pwm = TRUE
    /\ setting = [c \in Callers |-> NoSetting]
    /\ issued = NoneIssued
    /\ placed = NonePlaced

DrainIdle == where = [w \in {"sensor", "logging"} \X (1..MaxForks) |-> "loop"]

Init ==
    /\ \E p \in ParamChoices : period = p[1] /\ phase = p[2] /\ latency = p[3]
    /\ motor_speed \in Speeds
    /\ ValidWaveParameters(period, phase, latency, motor_speed)
    /\ reverse \in BOOLEAN
    /\ wave_running = FALSE
    /\ logging_active = FALSE
    /\ running = TRUE
    /\ processes = {}
    /\ cycle_info = CycleRecord(FracZero, 0, FALSE)
    /\ clock_queue = <<>>
    /\ command_queue = <<>>
    /\ sensor_queue = <<>>
    /\ logger = [NewLogger EXCEPT !.alive = FALSE]
    /\ motor_state = [m \in Motors |-> Stopped]
    /\ thr = <<>>
    /\ gui = Idle
    /\ ops = 0
    /\ obs = <<>>
    /\ lastIssuer = [by |-> 0, newest |-> 0, direction |-> 0]
    /\ CellIdle
    /\ LogIdle
    /\ FilterIdle
    /\ AcqIdle
    /\ ForceIdle
    /\ ApplyIdle
    /\ ProcIdle
    /\ MotorIdle
    /\ DrainIdle

Next ==
    \/ \E t \in DOMAIN thr : L803(t)
    \/ \E t \in DOMAIN thr : L826(t)
    \/ \E t \in DOMAIN thr : L831(t)
    \/ \E t \in DOMAIN thr : L839(t)
    \/ \E t \in DOMAIN thr : L844(t)
    \/ \E t \in DOMAIN thr : L849(t)
    \/ \E t \in DOMAIN thr : L864(t)
    \/ \E t \in DOMAIN thr : L868(t)
    \/ \E t \in DOMAIN thr : L876(t)
    \/ \E t \in DOMAIN thr : L880(t)
    \/ \E t \in DOMAIN thr : L886(t)
    \/ \E t \in DOMAIN thr : L890(t)
    \/ \E t \in DOMAIN thr : L898(t)
    \/ \E t \in DOMAIN thr : L905(t)
    \/ \E t \in DOMAIN thr : L910(t)
    \/ \E t \in DOMAIN thr : L923(t)
    \/ \E t \in DOMAIN thr : L928(t)
    \/ \E t \in DOMAIN thr : L935(t)
    \/ \E t \in DOMAIN thr : L940(t)
    \/ \E t \in DOMAIN thr : L946(t)
    \/ \E t \in DOMAIN thr : L951(t)
    \/ \E t \in DOMAIN thr : L960(t)
    \/ \E t \in DOMAIN thr : L963(t)
    \/ \E t \in DOMAIN thr : Return(t)
    \/ \E t \in DOMAIN thr : Except(t)
    \/ \E t \in DOMAIN thr : Finally(t)
    \/ \E n \in 1..MaxCycles : RunWavePattern(n)
    \/ L765
    \/ \E n \in 1..MaxCycles : StartWavePattern(n)
    \/ L1307
    \/ StopWavePattern
    \/ L1009
    \/ LoggingProcess
    \/ LoggingStopped
    \/ Tick

Spec == Init /\ [][Next]_vars

-----------------------------------------------------------------------------
(* The sequencer at rest: no wave thread, the operator idle, the queues    *)
(* empty, the default wave parameters of MotorControlSystem.__init__ (in   *)
(* ticks).  The specifications below start from it and leave it alone.     *)

seqvars == <<params, wave_running, processes, thr, gui, ops, obs, lastIssuer>>

SequencerIdle ==
    /\ period = 20 /\ phase = 5 /\ latency = 2
    /\ motor_speed = 70
    /\ reverse = FALSE
    /\ wave_running = FALSE
    /\ processes = {}
    /\ thr = <<>>
    /\ gui = Idle
    /\ ops = 0
    /\ obs = <<>>
    /\ lastIssuer = [by |-> 0, newest |-> 0, direction |-> 0]

-----------------------------------------------------------------------------
(* CellSpec: the shared cycle cell written field by field.  The cell is    *)
(* three multiprocessing Values; update_cycle_position assigns them one    *)
(* after the other under no common lock, and then puts the triple on       *)
(* clock_queue.  A reader takes the three values in one step, which is the *)
(* best a reader can do.                                                   *)

CellPositions == {FracZero, FracHalf, FracOne}

(* update_cycle_position: `self.cycle_info['cycle_position'].value = position` *)
L747(position, cycle_number, active) ==
    /\ upd = NoUpdate
    /\ Cardinality(together) <= MaxUpdates
    /\ CycleRecord(position, cycle_number, active) \notin together
    /\ upd' = [pc |-> "L748", rec |-> CycleRecord(position, cycle_number, active)]
    /\ together' = together \cup {upd'.rec}
    /\ cycle_info' = [cycle_info EXCEPT !.cycle_position = position]
    /\ UNCHANGED <<snapshot, clock_queue>>

(* `self.cycle_info['cycle_number'].value = cycle_number` *)
L748 ==
    /\ upd # NoUpdate /\ upd.pc = "L748"
    /\ upd' = [upd EXCEPT !.pc = "L749"]
    /\ cycle_info' = [cycle_info EXCEPT !.cycle_number = upd.rec.cycle_number]
    /\ UNCHANGED <<snapshot, together, clock_queue>>

(* `self.cycle_info['pattern_active'].value = active` *)
L749 ==
    /\ upd # NoUpdate /\ upd.pc = "L749"
    /\ upd' = [upd EXCEPT !.pc = "L752"]
    /\ cycle_info' = [cycle_info EXCEPT !.pattern_active = upd.rec.pattern_active]
    /\ UNCHANGED <<snapshot, together, clock_queue>>

(* `self.clock_queue.put({...})`: the update is complete. *)
L752 ==
    /\ upd # NoUpdate /\ upd.pc = "L752"
    /\ upd' = NoUpdate
    /\ clock_queue' = Append(clock_queue, upd.rec)
    /\ UNCHANGED <<snapshot, together, cycle_info>>

(* A reader of the cell, such as the end of wave_thread, which reads       *)
(* cycle_number and cycle_position back from the cell.                     *)
ReadCell ==
    /\ snapshot' = cycle_info
    /\ snapshot' # snapshot
    /\ UNCHANGED <<upd, together, cycle_info, clock_queue>>

(* The logging process takes a cycle state from clock_queue. *)
CellDrain ==
    /\ clock_queue # <<>>
    /\ logger' = [logger EXCEPT !.cycle_info = Head(clock_queue)]
    /\ clock_queue' = Tail(clock_queue)
    /\ UNCHANGED <<cellvars, cycle_info>>

cellrest == <<drainvars, motorvars, procvars, applyvars, forcevars, acqvars, seqvars, logvars, filtervars, logging_active, running, command_queue, sensor_queue,
              motor_state>>

CellInit ==
    /\ SequencerIdle
    /\ CellIdle
    /\ LogIdle
    /\ FilterIdle
    /\ AcqIdle
    /\ ForceIdle
    /\ ApplyIdle
    /\ ProcIdle
    /\ MotorIdle
    /\ DrainIdle
    /\ cycle_info = InitialCell
    /\ clock_queue = <<>>
    /\ command_queue = <<>>
    /\ sensor_queue = <<>>
    /\ logger = NewLogger
    /\ motor_state = [m \in Motors |-> Stopped]
    /\ logging_active = FALSE
    /\ running = TRUE

CellNext ==
    \/ \E position \in CellPositions, cycle_number \in 0..MaxCycles, active \in BOOLEAN :
          L747(position, cycle_number, active) /\ UNCHANGED <<cellrest, logger>>
    \/ L748 /\ UNCHANGED <<cellrest, logger>>
    \/ L749 /\ UNCHANGED <<cellrest, logger>>
    \/ L752 /\ UNCHANGED <<cellrest, logger>>
    \/ ReadCell /\ UNCHANGED <<cellrest, logger>>
    \/ CellDrain /\ UNCHANGED cellrest

CellSpec == CellInit /\ [][CellNext]_vars

-----------------------------------------------------------------------------
(* The log files.  The specification LogSpec follows logging_process_func  *)
(* statement by statement where it reads what other processes write (the   *)
(* queues, logging_active, the files), the sensor process as the producer  *)
(* of frames, and the GUI process where it names, creates and marks log    *)
(* files.  The wave thread is reduced to what it publishes.  Time is the   *)
(* wall clock second that generate_log_filename puts into a file name.     *)

(* The variables LogSpec leaves alone. *)
logrest == <<drainvars, motorvars, procvars, applyvars, forcevars, acqvars, params, thr, ops, obs, lastIssuer, cellvars, filtervars>>

(* The three keys of a cycle state, without the run it came from. *)
Bare(rec) == CycleRecord(rec.cycle_position, rec.cycle_number, rec.pattern_active)

(* A file operation can fail (disk full, card removed, permissions). *)
MayFail == tally.faults < MaxFaults

(* Lines 655-674, one pass of the loop up to the frame: the file name      *)
(* check, at most one item from clock_queue, at most one from              *)
(* command_queue, and a frame from sensor_queue if `take` holds.  Without  *)
(* a frame the pass ends in time.sleep(0.01).                              *)
Pass(take) ==
    /\ logger.alive
    /\ running
    /\ lw.pc = "L652"
    /\ clock_queue # <<>> \/ command_queue # <<>> \/ take
    /\ logger' = [logger EXCEPT
                    !.cycle_info = IF clock_queue # <<>> THEN Head(clock_queue) ELSE @,
                    !.motor_commands =
                        IF command_queue # <<>> THEN Head(command_queue) ELSE @,
                    !.held = IF clock_queue # <<>>
                             THEN @ \cup {Head(clock_queue).run} ELSE @,
                    !.ended = IF clock_queue # <<>> /\ ~Head(clock_queue).pattern_active
                              THEN @ \cup {Head(clock_queue).run} ELSE @]
    /\ clock_queue' = IF clock_queue # <<>> THEN Tail(clock_queue) ELSE clock_queue
    /\ command_queue' = IF command_queue # <<>> THEN Tail(command_queue)
                        ELSE command_queue
    /\ LET switched == lw.current_log_file # lw.log_filename
           checked == [lw EXCEPT
                         !.current_log_file = lw.log_filename,
                         !.first_write_done = IF switched THEN FALSE ELSE @]
       IN IF take
          THEN /\ sensor_queue' = Tail(sensor_queue)
               /\ lw' = [checked EXCEPT
                           !.pc = "L676",
                           !.sensor_data = Head(sensor_queue),
                           !.behind = lw.log_filename # log_filename,
                           !.stale = \/ Bare(logger'.cycle_info) # tally.lastPub
                                     \/ logger'.motor_commands # motor_state]
               /\ tally' = [tally EXCEPT
                              !.consumed = @ + 1,
                              !.consumedOn = IF logging_active THEN @ + 1 ELSE @]
          ELSE /\ lw' = checked
               /\ UNCHANGED <<sensor_queue, tally>>
    /\ UNCHANGED <<logrest, wave, wave_running, logging_active, running, processes, cycle_info,
                   motor_state, gui, active_test_name, log_filename, files, now>>

(* A pass that would take a frame only while logging is on. *)
L655WhenLogging == Pass(sensor_queue # <<>> /\ logging_active)

(* Line 668: a frame is taken whenever sensor_queue is not empty. *)
L655 == Pass(sensor_queue # <<>>)

(* Lines 676-682 up to the open: logging_active is read; with logging off  *)
(* the frame is dropped; with logging on and no write done yet the file is *)
(* looked at, and a header is due when it is missing or empty.             *)
L676 ==
    /\ lw.pc = "L676"
    /\ IF logging_active
       THEN /\ tally' = [tally EXCEPT !.enabled = @ + 1]
            /\ IF ~lw.first_write_done /\ files[lw.current_log_file] = <<>>
               THEN lw' = [lw EXCEPT !.pc = "L680"]
               ELSE lw' = [lw EXCEPT !.pc = "L710", !.first_write_done = TRUE]
       ELSE /\ tally' = [tally EXCEPT !.disabled = @ + 1]
            /\ lw' = [lw EXCEPT !.pc = "L652"]
    /\ UNCHANGED <<logrest, wave, wave_running, logging_active, running, processes, cycle_info,
                   clock_queue, command_queue, sensor_queue, logger, motor_state, gui,
                   active_test_name, log_filename, files, now>>

(* A writer puts the header row into file f, which held `before`. *)
HeaderWritten(t, f, before) ==
    [t EXCEPT !.headers = @ \cup {f},
              !.headerTwice = @ \/ f \in t.headers,
              !.headerOverData = @ \/ before # <<>>]

(* Lines 680-682: open(current_log_file, 'w') empties the file, the header *)
(* row is written.  An exception here is not inside the inner `try`: it    *)
(* goes to the handler of line 728, the frame is lost and first_write_done *)
(* stays False.                                                            *)
L680 ==
    /\ lw.pc = "L680"
    /\ \E ok \in {TRUE} \cup (IF MayFail THEN {FALSE} ELSE {}) :
          IF ok
          THEN /\ files' = [files EXCEPT ![lw.current_log_file] = <<"header">>]
               /\ lw' = [lw EXCEPT !.pc = "L710", !.first_write_done = TRUE]
               /\ tally' = HeaderWritten(tally, lw.current_log_file,
                                         files[lw.current_log_file])
          ELSE /\ lw' = [lw EXCEPT !.pc = "L652"]
               /\ tally' = [tally EXCEPT !.failed = @ + 1, !.faults = @ + 1]
               /\ UNCHANGED files
    /\ UNCHANGED <<logrest, wave, wave_running, logging_active, running, processes, cycle_info,
                   clock_queue, command_queue, sensor_queue, logger, motor_state, gui,
                   active_test_name, log_filename, now>>

(* A row write whose failure would end the logging process. *)
L710FatalFailure ==
    /\ lw.pc = "L710"
    /\ \E ok \in {TRUE} \cup (IF MayFail THEN {FALSE} ELSE {}) :
          IF ok
          THEN /\ files' = [files EXCEPT ![lw.current_log_file] = Append(@, "row")]
               /\ tally' = [tally EXCEPT !.rows = @ + 1]
               /\ UNCHANGED logger
          ELSE /\ tally' = [tally EXCEPT !.failed = @ + 1, !.faults = @ + 1]
               /\ logger' = [logger EXCEPT !.alive = FALSE]
               /\ UNCHANGED files
    /\ lw' = [lw EXCEPT !.pc = "L652"]
    /\ UNCHANGED <<logrest, wave, wave_running, logging_active, running, processes,
                   cycle_info, clock_queue, command_queue, sensor_queue, motor_state, gui,
                   active_test_name, log_filename, now>>

(* Lines 708-726: the row is appended to current_log_file and flushed; an  *)
(* exception is caught at line 723 and the loop goes on.                   *)
L710 ==
    /\ lw.pc = "L710"
    /\ \E ok \in {TRUE} \cup (IF MayFail THEN {FALSE} ELSE {}) :
          IF ok
          THEN /\ files' = [files EXCEPT ![lw.current_log_file] = Append(@, "row")]
               /\ tally' = [tally EXCEPT
                    !.rows = @ + 1,
                    !.rowsOff = IF logging_active THEN @ ELSE @ + 1,
                    !.rowsAfterFailure = IF tally.failed > 0 THEN @ + 1 ELSE @,
                    !.staleRows = IF lw.stale THEN @ + 1 ELSE @,
                    !.strayRows = IF lw.behind /\ lw.current_log_file # log_filename
                                  THEN @ + 1 ELSE @]
          ELSE /\ tally' = [tally EXCEPT !.failed = @ + 1, !.faults = @ + 1]
               /\ UNCHANGED files
    /\ lw' = [lw EXCEPT !.pc = "L652"]
    /\ UNCHANGED <<logrest, wave, wave_running, logging_active, running, processes, cycle_info,
                   clock_queue, command_queue, sensor_queue, logger, motor_state, gui,
                   active_test_name, log_filename, now>>

(* sensor_process_func, lines 606-615: a frame is read and put on          *)
(* sensor_queue, 10 times a second while `running` holds.                  *)
L609 ==
    /\ running
    /\ "sensor" \in processes
    /\ tally.produced < MaxFrames
    /\ sensor_queue' = Append(sensor_queue, tally.produced + 1)
    /\ tally' = [tally EXCEPT !.produced = @ + 1]
    /\ UNCHANGED <<logrest, wave, wave_running, logging_active, running, processes, cycle_info,
                   clock_queue, command_queue, logger, motor_state, gui,
                   active_test_name, log_filename, files, now, lw>>

(* The handler is at position pc (its other fields are not used here). *)
At(pc) == [Idle EXCEPT !.pc = pc]

(* start_system_processes, lines 1282-1285: both worker processes are      *)
(* forked; the logging process starts with the GUI's self.log_filename of  *)
(* this moment.                                                            *)
Forked ==
    /\ running' = TRUE
    /\ processes' = {"sensor", "logging"}
    /\ logger' = NewLogger
    /\ lw' = NewLogWriter

(* The "Start Processes" button: MotorControlGUI.start_system_processes   *)
(* with no worker process present.                                         *)
start_system_processes ==
    /\ gui.pc = "idle"
    /\ processes = {}
    /\ Forked
    /\ UNCHANGED <<logrest, wave_running, logging_active, cycle_info, clock_queue,
                   command_queue, sensor_queue, motor_state, gui, active_test_name,
                   log_filename, files, now, wave, tally>>

(* MotorControlGUI.start_wave_pattern, lines 1318-1319: with worker        *)
(* processes present stop_system_processes clears the flags and joins      *)
(* them; without, start_system_processes forks them at once.               *)
start_wave_pattern ==
    /\ gui.pc = "idle"
    /\ tally.starts < MaxStarts
    /\ tally' = [tally EXCEPT !.starts = @ + 1]
    /\ IF processes # {}
       THEN /\ running' = FALSE
            /\ logging_active' = FALSE
            /\ wave_running' = FALSE
            /\ cycle_info' = [cycle_info EXCEPT !.pattern_active = FALSE]
            /\ gui' = At("L1304")
            /\ UNCHANGED <<processes, logger, lw>>
       ELSE /\ Forked
            /\ gui' = At("L765")
            /\ UNCHANGED <<logging_active, wave_running, cycle_info>>
    /\ UNCHANGED <<logrest, wave, clock_queue, command_queue, sensor_queue, motor_state,
                   active_test_name, log_filename, files, now>>

(* Lines 1303-1307 and 1319: the joins end when the logging process has    *)
(* left its loop; the processes are forked anew.                           *)
L1304 ==
    /\ gui.pc = "L1304"
    /\ ~logger.alive
    /\ Forked
    /\ gui' = At("L765")
    /\ UNCHANGED <<logrest, wave, wave_running, logging_active, cycle_info, clock_queue,
                   command_queue, sensor_queue, motor_state, active_test_name,
                   log_filename, files, now, tally>>

(* run_wave_pattern, lines 765-769: the run's log file is named and the    *)
(* flags are raised (wave_running is False here: the wave thread of this   *)
(* specification has ended, or stop_system_processes has cleared it).      *)
run_wave_pattern ==
    /\ gui.pc = "L765"
    /\ log_filename' = generate_log_filename
    /\ wave_running' = TRUE
    /\ logging_active' = TRUE
    /\ gui' = At("L262")
    /\ UNCHANGED <<logrest, wave, running, processes, cycle_info, clock_queue, command_queue,
                   sensor_queue, logger, motor_state, active_test_name, files, now, lw,
                   tally>>

(* _init_log_file, lines 262-264: a file that exists with a size above 0   *)
(* is left alone.                                                          *)
L262 ==
    /\ gui.pc = "L262"
    /\ gui' = IF files[log_filename] # <<>> THEN At("L774") ELSE At("L269")
    /\ UNCHANGED <<logrest, wave, wave_running, logging_active, running, processes, cycle_info,
                   clock_queue, command_queue, sensor_queue, logger, motor_state,
                   active_test_name, log_filename, files, now, lw, tally>>

(* _init_log_file, lines 269-270: open(filename, 'w') empties the file,    *)
(* the header row is written.                                              *)
L269 ==
    /\ gui.pc = "L269"
    /\ files' = [files EXCEPT ![log_filename] = <<"header">>]
    /\ tally' = HeaderWritten(tally, log_filename, files[log_filename])
    /\ gui' = At("L774")
    /\ UNCHANGED <<logrest, wave, wave_running, logging_active, running, processes, cycle_info,
                   clock_queue, command_queue, sensor_queue, logger, motor_state,
                   active_test_name, log_filename, now, lw>>

(* Lines 773-775: the start marker is appended. *)
L774 ==
    /\ gui.pc = "L774"
    /\ files' = [files EXCEPT ![log_filename] = Append(@, "marker")]
    /\ gui' = At("L780")
    /\ UNCHANGED <<logrest, wave, wave_running, logging_active, running, processes, cycle_info,
                   clock_queue, command_queue, sensor_queue, logger, motor_state,
                   active_test_name, log_filename, now, lw, tally>>

(* Lines 779-786: the file is opened for appending; a header row is        *)
(* written if tell() is 0, then the start marker once more.                *)
L780 ==
    /\ gui.pc = "L780"
    /\ IF files[log_filename] = <<>>
       THEN /\ files' = [files EXCEPT ![log_filename] = <<"header", "marker">>]
            /\ tally' = HeaderWritten(tally, log_filename, <<>>)
       ELSE /\ files' = [files EXCEPT ![log_filename] = Append(@, "marker")]
            /\ UNCHANGED tally
    /\ gui' = At("L790")
    /\ UNCHANGED <<logrest, wave, wave_running, logging_active, running, processes, cycle_info,
                   clock_queue, command_queue, sensor_queue, logger, motor_state,
                   active_test_name, log_filename, now, lw>>

(* A cycle state is put on clock_queue. *)
Put(rec) ==
    /\ clock_queue' = Append(clock_queue, Published(rec, tally.starts))
    /\ tally' = [tally EXCEPT !.lastPub = rec]

(* Lines 790-800: the cycle cell is reset and published, the wave thread   *)
(* is started.                                                             *)
L790 ==
    /\ gui.pc = "L790"
    /\ cycle_info' = CycleRecord(FracZero, 0, TRUE)
    /\ Put(cycle_info')
    /\ gui' = Idle
    /\ wave' = "L818"
    /\ UNCHANGED <<logrest, wave_running, logging_active, running, processes,
                   command_queue, sensor_queue, logger, motor_state,
                   active_test_name, log_filename, files, now, lw>>

(* set_motor: the command is applied and the state of both motors is put  *)
(* on command_queue.                                                       *)
SetMotor(name, direction, speed) ==
    /\ motor_state' = MotorAfter(name, direction, speed)
    /\ command_queue' = Append(command_queue, motor_state')

(* wave_thread, lines 818-825: motor 1 is started, the cycle state         *)
(* (0.0, 0, True) is published, the thread sleeps.                         *)
L818 ==
    /\ wave = "L818"
    /\ SetMotor("motor1", 1, 70)
    /\ cycle_info' = CycleRecord(FracZero, 0, TRUE)
    /\ Put(cycle_info')
    /\ wave' = "L960"
    /\ UNCHANGED <<logrest, wave_running, logging_active, running, processes,
                   sensor_queue, logger, gui, active_test_name, log_filename, files,
                   now, lw>>

(* wave_thread, line 960, after the sleeps of the pattern: the last        *)
(* position is published.                                                  *)
L960Log ==
    /\ wave = "L960"
    /\ cycle_info' = CycleRecord(FracHalf, 1, TRUE)
    /\ Put(cycle_info')
    /\ wave' = "L963"
    /\ UNCHANGED <<logrest, wave_running, logging_active, running, processes,
                   command_queue, sensor_queue, logger, motor_state, gui,
                   active_test_name, log_filename, files, now, lw>>

(* wave_thread, lines 963-971: the motors are stopped and the cycle state  *)
(* is published with pattern_active False.                                 *)
L963Log ==
    /\ wave = "L963"
    /\ SetMotor("both", 0, 0)
    /\ cycle_info' = [cycle_info EXCEPT !.pattern_active = FALSE]
    /\ Put(cycle_info')
    /\ wave' = "L974"
    /\ UNCHANGED <<logrest, wave_running, logging_active, running, processes,
                   sensor_queue, logger, gui, active_test_name, log_filename, files,
                   now, lw>>

(* The `finally` of wave_thread, lines 988-996. *)
FinallyLog ==
    /\ wave_running' = FALSE
    /\ cycle_info' = [cycle_info EXCEPT !.pattern_active = FALSE]
    /\ Put(cycle_info')
    /\ SetMotor("both", 0, 0)
    /\ logging_active' = FALSE
    /\ wave' = "done"

(* wave_thread, line 974 and the `finally`: logging_active is cleared, and *)
(* the thread ends.                                                        *)
L974 ==
    /\ wave = "L974"
    /\ FinallyLog
    /\ UNCHANGED <<logrest, running, processes, sensor_queue, logger, gui,
                   active_test_name, log_filename, files, now, lw>>

(* MotorControlSystem.set_test_name, lines 277-284: the name is taken and  *)
(* a new log file is named; the file is not created.                       *)
set_test_name(test_name) ==
    /\ gui.pc = "idle"
    /\ test_name # active_test_name
    /\ tally.renames < MaxRenames
    /\ active_test_name' = test_name
    /\ log_filename' = <<test_name, now>>
    /\ tally' = [tally EXCEPT !.renames = @ + 1]
    /\ UNCHANGED <<logrest, wave, wave_running, logging_active, running, processes, cycle_info,
                   clock_queue, command_queue, sensor_queue, logger, motor_state, gui,
                   files, now, lw>>

(* A second passes on the wall clock. *)
Second ==
    /\ now < MaxSeconds
    /\ now' = now + 1
    /\ UNCHANGED <<logrest, wave, wave_running, logging_active, running, processes, cycle_info,
                   clock_queue, command_queue, sensor_queue, logger, motor_state, gui,
                   active_test_name, log_filename, files, lw, tally>>

LogInit ==
    /\ SequencerIdle
    /\ CellIdle
    /\ LogIdle
    /\ FilterIdle
    /\ AcqIdle
    /\ ForceIdle
    /\ ApplyIdle
    /\ ProcIdle
    /\ MotorIdle
    /\ DrainIdle
    /\ logging_active = FALSE
    /\ running = TRUE
    /\ cycle_info = InitialCell
    /\ clock_queue = <<>>
    /\ command_queue = <<>>
    /\ sensor_queue = <<>>
    /\ logger = [NewLogger EXCEPT !.alive = FALSE]
    /\ motor_state = [m \in Motors |-> Stopped]

(* The steps of the logging process. *)
LogWriter ==
    \/ L655
    \/ L676
    \/ L680
    \/ L710
    \/ LoggingStopped

LogNext ==
    \/ LogWriter
    \/ L609
    \/ start_system_processes
    \/ start_wave_pattern
    \/ L1304
    \/ run_wave_pattern
    \/ L262
    \/ L269
    \/ L774
    \/ L780
    \/ L790
    \/ L818
    \/ L960Log
    \/ L963Log
    \/ L974
    \/ \E n \in TestNames : set_test_name(n)
    \/ Second

LogSpec == LogInit /\ [][LogNext]_vars

(* The logging process is a process of its own: the operating system runs  *)
(* it whenever it has a step to take.                                      *)
FairLogSpec == LogSpec /\ WF_vars(LogWriter)

-----------------------------------------------------------------------------
(* The median filter.  The specification FilterSpec applies median_filter  *)
(* to the history of one load cell, as read_sensors builds it and as a     *)
(* direct call finds it, for every window size in 1..MaxWindow.            *)

(* values[start:] for a Python list: a negative start counts from the end, *)
(* and the bounds are clipped to the list.                                 *)
SliceFrom(values, start) ==
    LET n == Len(values)
        first == IF start < 0
                 THEN (IF n + start < 0 THEN 0 ELSE n + start)
                 ELSE (IF start > n THEN n ELSE start)
    IN SubSeq(values, first + 1, n)

(* x put into an ascending sequence, after the entries that are not above it. *)
RECURSIVE Insert(_, _)
Insert(x, srt) ==
    IF srt = <<>> THEN <<x>>
    ELSE IF x < Head(srt) THEN <<x>> \o srt
    ELSE <<Head(srt)>> \o Insert(x, Tail(srt))

(* sorted(values): the entries in ascending order. *)
RECURSIVE sorted(_)
sorted(values) ==
    IF values = <<>> THEN <<>>
    ELSE Insert(values[Len(values)], sorted(SubSeq(values, 1, Len(values) - 1)))

(* A median filter that would return the oldest sample of a short history. *)
median_filter_first(values, window_size) ==
    IF Len(values) < window_size
    THEN (IF values # <<>> THEN <<values[1]>> ELSE None)
    ELSE <<sorted(SliceFrom(values, 0 - window_size))[(window_size \div 2) + 1]>>

(* A median filter that would sort the whole history. *)
median_filter_whole(values, window_size) ==
    IF Len(values) < window_size
    THEN (IF values # <<>> THEN <<values[Len(values)]>> ELSE None)
    ELSE <<sorted(values)[(window_size \div 2) + 1]>>

(* A median filter that would take the lower of the two central entries   *)
(* of a window of even size.                                               *)
median_filter_lower(values, window_size) ==
    IF Len(values) < window_size
    THEN (IF values # <<>> THEN <<values[Len(values)]>> ELSE None)
    ELSE <<sorted(SliceFrom(values, 0 - window_size))[
               IF window_size % 2 = 0 THEN window_size \div 2
               ELSE (window_size \div 2) + 1]>>

(* median_filter, lines 385-387 (a Python index i is i + 1 here). *)
median_filter(values, window_size) ==
    IF Len(values) < window_size
    THEN (IF values # <<>> THEN <<values[Len(values)]>> ELSE None)
    ELSE <<sorted(SliceFrom(values, 0 - window_size))[(window_size \div 2) + 1]>>

(* The raw readings of a load cell. *)
Samples == 1..MaxSample

filterrest == <<drainvars, motorvars, procvars, applyvars, forcevars, acqvars, seqvars, cellvars, logvars, logging_active, running, cycle_info,
                clock_queue, command_queue, sensor_queue, logger, motor_state>>

(* The step of lines 412-421 with a history cut to one entry less than    *)
(* the window.                                                             *)
L412CutShort(raw_value) ==
    LET history == Append(reading_history, raw_value)
    IN /\ Len(every) < MaxReads
       /\ filtered' = median_filter(history, filter_window_size)
       /\ applied' = TRUE
       /\ reading_history' = IF Len(history) > filter_window_size * 2
                             THEN SliceFrom(history, 1 - filter_window_size)
                             ELSE history
       /\ every' = Append(every, raw_value)
       /\ UNCHANGED <<filterrest, filter_window_size>>

(* read_sensors for one load cell, lines 412-421: the reading is appended  *)
(* to the history, the history is filtered, and a history of more than     *)
(* twice the window is cut to the window.                                  *)
L412(raw_value) ==
    LET history == Append(reading_history, raw_value)
    IN /\ Len(every) < MaxReads
       /\ filtered' = median_filter(history, filter_window_size)
       /\ applied' = TRUE
       /\ reading_history' = IF Len(history) > filter_window_size * 2
                             THEN SliceFrom(history, 0 - filter_window_size)
                             ELSE history
       /\ every' = Append(every, raw_value)
       /\ UNCHANGED <<filterrest, filter_window_size>>

(* median_filter called on the history as it is. *)
L385 ==
    /\ ~applied
    /\ filtered' = median_filter(reading_history, filter_window_size)
    /\ applied' = TRUE
    /\ UNCHANGED <<filterrest, reading_history, filter_window_size, every>>

FilterInit ==
    /\ SequencerIdle
    /\ CellIdle
    /\ LogIdle
    /\ AcqIdle
    /\ ForceIdle
    /\ ApplyIdle
    /\ ProcIdle
    /\ MotorIdle
    /\ DrainIdle
    /\ logging_active = FALSE
    /\ running = TRUE
    /\ cycle_info = InitialCell
    /\ clock_queue = <<>>
    /\ command_queue = <<>>
    /\ sensor_queue = <<>>
    /\ logger = [NewLogger EXCEPT !.alive = FALSE]
    /\ motor_state = [m \in Motors |-> Stopped]
    /\ reading_history = <<>>
    /\ filter_window_size \in 1..MaxWindow
    /\ filtered = None
    /\ applied = FALSE
    /\ every = <<>>

FilterNext ==
    \/ \E raw_value \in Samples : L412(raw_value)
    \/ L385

FilterSpec == FilterInit /\ [][FilterNext]_vars

-----------------------------------------------------------------------------
(* C1: at most one sequencer drives the actuators: a wave thread that      *)
(* issues a motor command is the thread of the newest run.  Stated for the *)
(* commands that drive a motor (direction not 0): a previous thread drives *)
(* no motor once a new run has been started.                               *)
C1_OneSequencerCommands ==
    lastIssuer.direction # 0 => lastIssuer.by = lastIssuer.newest

(* C2: a run with validated parameters that is never cancelled (no stop    *)
(* or restart requested during it, its flag not cleared by another run)    *)
(* has, when its thread exits, completed exactly one RampUp, its N cycles  *)
(* and one RampDown, and its last command to each motor is (0, 0).         *)
C2_UncancelledRunCompletes ==
    \A t \in DOMAIN thr :
        (thr[t].pc = "done" /\ ~obs[t].stopReq /\ ~obs[t].cleared) =>
            /\ obs[t].rampUps = 1
            /\ obs[t].cycles = thr[t].num_cycles
            /\ obs[t].rampDowns = 1
            /\ \A m \in Motors : obs[t].lastCmd[m] = <<0, 0>>

(* C3: on every exit path of wave_thread (normal completion, cancellation  *)
(* at a wait boundary, exception) the thread has, when it exits, commanded *)
(* both motors to (0, 0) as its last command and published                 *)
(* pattern_active = False as its last cycle state.                         *)
C3_CleanupOnEveryExit ==
    \A t \in DOMAIN thr :
        thr[t].pc = "done" =>
            /\ \A m \in Motors : obs[t].lastCmd[m] = <<0, 0>>
            /\ obs[t].offPubs >= 1
            /\ ~obs[t].lastPub.pattern_active

(* A thread has exited through the exception path. *)
C3_ExitAfterException ==
    \E t \in DOMAIN thr : thr[t].pc = "done" /\ obs[t].faulted

(* C4: once a wave thread has read wave_running as False it drives no      *)
(* motor (no command with a direction other than 0) and begins no further  *)
(* cycle and no final half cycle.                                          *)
C4_NothingAfterObservedStop ==
    \A t \in DOMAIN obs : ~obs[t].nonzeroAfterFalse /\ ~obs[t].stepAfterFalse

(* C5: when stop_wave_pattern was called while a run was in its cycle      *)
(* loop, then at the step where the call returns both motors are recorded  *)
(* as (0, 0) and pattern_active is False.                                  *)
C5_StoppedWhenStopReturns ==
    [][(gui.pc = "L1008" /\ gui'.pc = "idle" /\ gui.inCycling) =>
          /\ \A m \in Motors : motor_state'[m] = Stopped
          /\ ~cycle_info'.pattern_active]_vars

(* C6: a wave thread drives no motor (no command with a direction other    *)
(* than 0) after stop_wave_pattern has issued its (0, 0) command.          *)
C6_NoDriveAfterStopCommand ==
    \A t \in DOMAIN obs : ~obs[t].nonzeroAfterStop

(* C7: the cleanup of a previous run never clears the wave_running flag of *)
(* a newer run whose thread is still running.                              *)
C7_CleanupSparesNewRun ==
    \A t \in DOMAIN obs : ~obs[t].cleared

(* C8 as stated: within one run pattern_active = False is published once   *)
(* at most, and the run issues no motor command after that publication.    *)
C8_SingleInactivePublication ==
    \A t \in DOMAIN obs : obs[t].offPubs <= 1 /\ obs[t].cmdsAfterOff = 0

(* C8, amended: a run publishes pattern_active = False once or twice (the  *)
(* end of the try block and the finally block both publish it), at least   *)
(* once before its thread exits; after the first such publication the run  *)
(* never publishes pattern_active = True again and issues only the         *)
(* (0, 0) command of the finally block.                                    *)
C8_InactiveIsFinal ==
    \A t \in DOMAIN obs :
        /\ obs[t].offPubs <= 2
        /\ ~obs[t].onAfterOff
        /\ ~obs[t].nonzeroAfterOff
        /\ obs[t].cmdsAfterOff <= 1
        /\ thr[t].pc = "done" => obs[t].offPubs >= 1 /\ obs[t].cmdsAfterOff = 1

(* A run that completed normally has published pattern_active = False      *)
(* twice and stopped the motors once more after the first publication.     *)
C8_PublishedTwice ==
    \E t \in DOMAIN obs :
        thr[t].pc = "done" /\ obs[t].offPubs = 2 /\ obs[t].cmdsAfterOff = 1

(* C9: over the cycle states a run publishes while it is active,           *)
(* cycle_position does not decrease while cycle_number is unchanged, a     *)
(* publication that increases cycle_number carries cycle_position 0.0, and *)
(* 0.0 is published only with such an increase (or at run start).          *)
C9_PositionWithinCycle ==
    [][\A t \in DOMAIN obs :
          LET a == obs[t].lastPub
              b == obs'[t].lastPub
          IN  (b # a /\ b.pattern_active) =>
                /\ b.cycle_number = a.cycle_number =>
                       FracLe(a.cycle_position, b.cycle_position)
                /\ b.cycle_number > a.cycle_number => b.cycle_position = FracZero
                /\ b.cycle_position = FracZero => b.cycle_number > a.cycle_number]_vars

(* C10: every published cycle_position lies in [0, 1]. *)
C10_PositionInUnitInterval ==
    \A t \in DOMAIN obs :
        /\ FracLe(FracZero, obs[t].lastPub.cycle_position)
        /\ FracLe(obs[t].lastPub.cycle_position, FracOne)

C12_RunEndIsBarrier ==
    \A r1, r2 \in logger.held : r1 < r2 => r1 \in logger.ended


(* C13: for every log file, whatever the interleaving of run starts, test  *)
(* name changes and writes of the logging process, the header row is       *)
(* written at most once, and only to a file that is empty when it is       *)
(* written.                                                                *)
C13_HeaderOnceOnEmpty == ~tally.headerTwice /\ ~tally.headerOverData

(* C14: whatever the toggling of logging_active over a stream of frames,   *)
(* no data row is written while logging_active is False, and, between two  *)
(* passes of the logging process and with no failed file operation, the    *)
(* rows written are as many as the frames taken from sensor_queue while    *)
(* logging_active was True.                                                *)
C14_RowPerEnabledFrame ==
    /\ tally.rowsOff = 0
    /\ (lw.pc = "L652" /\ tally.failed = 0) => tally.rows = tally.consumedOn

(* C15: while the logging process runs, every frame put on sensor_queue is *)
(* eventually taken from it, with logging on or off.                       *)
C15_EveryFrameDequeued ==
    \A k \in 1..MaxFrames :
        (tally.produced >= k) ~> (tally.consumed >= k \/ ~(logger.alive /\ running))

(* All frames were taken, one of them at least with logging off. *)
C15_DequeuedWhileDisabled ==
    /\ tally.consumed = MaxFrames
    /\ tally.disabled >= 1
    /\ sensor_queue = <<>>

(* C16: every data row carries the command of both motors and the cycle    *)
(* state that were the last published when the row's frame was taken from  *)
(* sensor_queue.                                                           *)
C16_SnapshotUpToDate == tally.staleRows = 0

(* C17: the logging process writes to one target at a time, and once the   *)
(* target is switched, by a new test name or a new run, every data row     *)
(* written for a frame taken afterwards goes to the new target             *)
(* (self.log_filename), none to the previous one.                          *)
C17_RowsGoToCurrentTarget == tally.strayRows = 0

(* C18: a failed file operation of the logging process ends neither its    *)
(* loop, which ends only when `running` is found False, nor the sensor     *)
(* process or the wave thread; the failure leaves the logging process at   *)
(* the top of its loop, and every frame put on sensor_queue is still taken *)
(* from it afterwards.                                                     *)
C18_FailureNotFatal ==
    /\ [][((tally'.failed > tally.failed) =>
               (/\ logger'.alive
                /\ lw'.pc = "L652"
                /\ running' = running
                /\ processes' = processes
                /\ wave' = wave
                /\ wave_running' = wave_running))
          /\ ((logger.alive /\ ~logger'.alive) => ~running)]_vars
    /\ \A k \in 1..MaxFrames :
          (tally.failed >= 1 /\ tally.produced >= k)
              ~> (tally.consumed >= k \/ ~(logger.alive /\ running))

(* A row write failed, and a later frame was taken and its row written. *)
C18_RowAfterFailure ==
    /\ tally.failed >= 1
    /\ tally.rowsAfterFailure >= 1
    /\ logger.alive

(* C19: for a window size W >= 1, median_filter returns the last sample of *)
(* a history that is not empty and shorter than W, and None for an empty   *)
(* history.                                                                *)
C19_ShortHistoryGivesLast ==
    (applied /\ Len(reading_history) < filter_window_size) =>
        IF reading_history = <<>>
        THEN filtered = None
        ELSE filtered = <<reading_history[Len(reading_history)]>>

(* A history of two samples under a window of three: the last sample, not  *)
(* the first, is returned.                                                 *)
C19_LastOfTwo ==
    /\ applied
    /\ filter_window_size = 3
    /\ reading_history = <<3, 1>>
    /\ filtered = <<1>>

(* C20: for a history of length >= W, median_filter returns the entry at   *)
(* index W div 2 of the ascending order of the last W entries: an entry of *)
(* the window with at most W div 2 entries of the window below it and more *)
(* than W div 2 entries of the window not above it; older entries play no  *)
(* part.                                                                   *)
C20_MedianOfLastWindow ==
    (applied /\ Len(reading_history) >= filter_window_size) =>
        LET n == Len(reading_history)
            W == filter_window_size
            window == (n - W + 1)..n
            below(v) == Cardinality({i \in window : reading_history[i] < v})
            notAbove(v) == Cardinality({i \in window : reading_history[i] <= v})
        IN /\ Len(filtered) = 1
           /\ \E i \in window : reading_history[i] = filtered[1]
           /\ below(filtered[1]) <= W \div 2
           /\ notAbove(filtered[1]) > W \div 2

(* A history longer than the window whose older entries would give another *)
(* result: the last three of 1, 1, 3, 2, 3 give 3, all five give 1.        *)
C20_OlderEntriesIgnored ==
    /\ applied
    /\ filter_window_size = 3
    /\ reading_history = <<1, 1, 3, 2, 3>>
    /\ filtered = <<3>>

(* C21 as the code has it: for an even window size W and a history of      *)
(* length >= W, median_filter returns the upper of the two central entries *)
(* of the last W entries: the window splits into W div 2 entries and       *)
(* W div 2 entries none of which is below any of the first, and the result *)
(* is the least of the second half.                                        *)
C21_UpperMiddleForEvenWindow ==
    (applied /\ filter_window_size % 2 = 0
             /\ Len(reading_history) >= filter_window_size) =>
        LET n == Len(reading_history)
            W == filter_window_size
            window == (n - W + 1)..n
        IN \E Low \in SUBSET window :
              /\ Cardinality(Low) = W \div 2
              /\ \A i \in Low, j \in window \ Low :
                    reading_history[i] <= reading_history[j]
              /\ \E j \in window \ Low :
                    /\ filtered = <<reading_history[j]>>
                    /\ \A k \in window \ Low : reading_history[j] <= reading_history[k]

(* C21: for an even window size W and a history of length >= W,            *)
(* median_filter returns the lower of the two central entries of the last  *)
(* W entries in ascending order: the greatest of the lower half.           *)
C21_LowerMiddleForEvenWindow ==
    (applied /\ filter_window_size % 2 = 0
             /\ Len(reading_history) >= filter_window_size) =>
        LET n == Len(reading_history)
            W == filter_window_size
            window == (n - W + 1)..n
        IN \E Low \in SUBSET window :
              /\ Cardinality(Low) = W \div 2
              /\ \A i \in Low, j \in window \ Low :
                    reading_history[i] <= reading_history[j]
              /\ \E i \in Low :
                    /\ filtered = <<reading_history[i]>>
                    /\ \A k \in Low : reading_history[k] <= reading_history[i]

(* A window of two with different entries: the larger one is returned,     *)
(* which is not the last sample.                                           *)
C21_LargerOfTwo ==
    /\ applied
    /\ filter_window_size = 2
    /\ reading_history = <<3, 1>>
    /\ filtered = <<3>>

(* C22: after every acquisition tick the history of a channel has at most  *)
(* 2W entries; a tick that takes it beyond 2W leaves exactly the W most    *)
(* recent samples in their order, any other tick leaves the history with   *)
(* the new sample appended; and the filtered value of every tick is what   *)
(* median_filter gives on the history that was never cut.                  *)
C22_TrimKeepsFilter ==
    [][every' # every =>
          /\ Len(reading_history') <= 2 * filter_window_size
          /\ IF Len(reading_history) + 1 > 2 * filter_window_size
             THEN /\ Len(reading_history') = filter_window_size
                  /\ reading_history' = SliceFrom(every', 0 - filter_window_size)
             ELSE reading_history' = Append(reading_history, every'[Len(every')])
          /\ filtered' = median_filter(every', filter_window_size)]_vars

(* A window of two: the fifth reading cut the history to two entries, and  *)
(* the sixth was filtered over the cut history.                            *)
C22_TickAfterTrim ==
    /\ filter_window_size = 2
    /\ every = <<3, 3, 3, 3, 1, 2>>
    /\ reading_history = <<3, 1, 2>>
    /\ filtered = <<2>>

(***************************************************************************)
(* The sensor process: read_sensors (lines 389-458) and the loop of        *)
(* start_sensor_process (lines 596-618).  The three load cells are read in *)
(* one tick; a load cell gives a weight or raises.  Python's / gives a     *)
(* float: a quotient a / b is kept as the fraction <<a, b>>.               *)
(***************************************************************************)
(* What get_weight does: it returns a weight w, here <<w>>, or raises. *)
Weights == {<<w>> : w \in 0..MaxWeight}

Failure == <<>>

(* self.LEVER_ARM_LENGTH = 0.25, line 46. *)
LEVER_ARM_LENGTH == <<1, 4>>

TrueDiv(a, b) == <<a, b>>

Times(a, q) == <<a * q[1], q[2]>>

acqrest == <<drainvars, motorvars, procvars, applyvars, forcevars, seqvars, cellvars, logvars, logging_active, cycle_info, clock_queue,
             command_queue, logger, motor_state, reading_history, filtered, applied, every>>

(* Lines 435-452 with thrust derived from the first reading alone. *)
forces_partial(raw_readings) ==
    [raw_readings |-> raw_readings,
     thrust |-> raw_readings[1],
     lift |-> IF \A i \in 1..3 : raw_readings[i] # None
              THEN <<TrueDiv(raw_readings[2][1] + raw_readings[3][1], 2)>> ELSE None,
     moment |-> IF \A i \in 1..3 : raw_readings[i] # None
                THEN <<Times(raw_readings[2][1] - raw_readings[3][1], LEVER_ARM_LENGTH)>>
                ELSE None]

(* The forces of a frame, lines 435-452. *)
forces(raw_readings) ==
    IF (\A i \in 1..Len(raw_readings) : raw_readings[i] # None) /\ Len(raw_readings) = 3
    THEN [raw_readings |-> raw_readings,
          thrust |-> raw_readings[1],
          lift |-> <<TrueDiv(raw_readings[2][1] + raw_readings[3][1], 2)>>,
          moment |-> <<Times(raw_readings[2][1] - raw_readings[3][1], LEVER_ARM_LENGTH)>>]
    ELSE [raw_readings |-> raw_readings, thrust |-> None, lift |-> None, moment |-> None]

(* The body of the for loop with a failing read still put in the history. *)
L397Poisoned(i, got) ==
    LET name == LoadCellNames[i]
    IN IF name \notin load_cells
       THEN [reading |-> None, history |-> histories[i], outcome |-> "absent"]
       ELSE IF got = Failure
       THEN [reading |-> None, history |-> Append(histories[i], 0), outcome |-> "failed"]
       ELSE LET raw_value == IF name \in {"loadcell2", "loadcell3"} THEN 0 - got[1] ELSE got[1]
                history == Append(histories[i], raw_value)
            IN [reading |-> median_filter(history, filter_window_size),
                history |-> IF Len(history) > filter_window_size * 2
                            THEN SliceFrom(history, 0 - filter_window_size)
                            ELSE history,
                outcome |-> "read"]

(* The body of the for loop for load cell i, lines 397-424: what is put in *)
(* raw_readings and what becomes of the history.  get_weight gives got.    *)
L397(i, got) ==
    LET name == LoadCellNames[i]
    IN IF name \notin load_cells
       THEN [reading |-> None, history |-> histories[i], outcome |-> "absent"]
       ELSE IF got = Failure
       THEN [reading |-> None, history |-> histories[i], outcome |-> "failed"]
       ELSE LET raw_value == IF name \in {"loadcell2", "loadcell3"} THEN 0 - got[1] ELSE got[1]
                history == Append(histories[i], raw_value)
            IN [reading |-> median_filter(history, filter_window_size),
                history |-> IF Len(history) > filter_window_size * 2
                            THEN SliceFrom(history, 0 - filter_window_size)
                            ELSE history,
                outcome |-> "read"]

(* read_sensors, lines 389-458: the frame, the histories and what each     *)
(* load cell did.  Without the hardware the readings are random numbers    *)
(* (lines 427-432), here the three of got.                                 *)
read_sensors(got) ==
    IF PI_AVAILABLE
    THEN LET cell == [i \in 1..3 |-> L397(i, got[i])]
         IN [forces |-> forces([i \in 1..3 |-> cell[i].reading]),
             histories |-> [i \in 1..3 |-> cell[i].history],
             outcome |-> [i \in 1..3 |-> cell[i].outcome]]
    ELSE [forces |-> forces([i \in 1..3 |-> got[i]]),
          histories |-> histories,
          outcome |-> [i \in 1..3 |-> "simulated"]]

(* while self.running.value, line 599. *)
L599 ==
    /\ sp = "L599"
    /\ IF running
       THEN acq.ticks < MaxTicks /\ sp' = "L601"
       ELSE sp' = "stopped"
    /\ UNCHANGED <<acqrest, filter_window_size, running, sensor_queue, PI_AVAILABLE,
                   load_cells, histories, latest_sensor_data, acq>>

(* A loop that stops at the first error. *)
L601Terminating(got, fault) ==
    LET sensor_data == read_sensors(got)
        frame == [timestamp |-> acq.ticks + 1, forces |-> sensor_data.forces]
    IN /\ sp = "L601"
       /\ fault # "none" => acq.faults < MaxFaults
       /\ histories' = IF fault = "L602" THEN histories ELSE sensor_data.histories
       /\ latest_sensor_data' = IF fault = "L602" THEN latest_sensor_data ELSE frame.forces
       /\ sensor_queue' = IF fault = "none" THEN Append(sensor_queue, frame) ELSE sensor_queue
       /\ acq' = [ticks |-> acq.ticks + 1,
                  clean |-> acq.clean + (IF fault = "none" THEN 1 ELSE 0),
                  stored |-> acq.stored + (IF fault = "L602" THEN 0 ELSE 1),
                  put |-> acq.put + (IF fault = "none" THEN 1 ELSE 0),
                  faults |-> acq.faults + (IF fault = "none" THEN 0 ELSE 1),
                  outcome |-> IF fault = "L602" THEN <<"none", "none", "none">>
                              ELSE sensor_data.outcome,
                  fault |-> fault]
       /\ sp' = IF fault = "none" THEN "L599" ELSE "stopped"
       /\ UNCHANGED <<acqrest, filter_window_size, running, PI_AVAILABLE, load_cells>>

(* One iteration, lines 600-616: read_sensors, the frame stored in         *)
(* latest_sensor_data and put on sensor_queue, and the sleep.  An          *)
(* exception is caught at line 614: at line 602 (read_sensors raised,      *)
(* nothing was read) or at line 609 (put raised).                          *)
L601(got, fault) ==
    LET sensor_data == read_sensors(got)
        frame == [timestamp |-> acq.ticks + 1, forces |-> sensor_data.forces]
    IN /\ sp = "L601"
       /\ fault # "none" => acq.faults < MaxFaults
       /\ histories' = IF fault = "L602" THEN histories ELSE sensor_data.histories
       /\ latest_sensor_data' = IF fault = "L602" THEN latest_sensor_data ELSE frame.forces
       /\ sensor_queue' = IF fault = "none" THEN Append(sensor_queue, frame) ELSE sensor_queue
       /\ acq' = [ticks |-> acq.ticks + 1,
                  clean |-> acq.clean + (IF fault = "none" THEN 1 ELSE 0),
                  stored |-> acq.stored + (IF fault = "L602" THEN 0 ELSE 1),
                  put |-> acq.put + (IF fault = "none" THEN 1 ELSE 0),
                  faults |-> acq.faults + (IF fault = "none" THEN 0 ELSE 1),
                  outcome |-> IF fault = "L602" THEN <<"none", "none", "none">>
                              ELSE sensor_data.outcome,
                  fault |-> fault]
       /\ sp' = "L599"
       /\ UNCHANGED <<acqrest, filter_window_size, running, PI_AVAILABLE, load_cells>>

(* stop_system_processes, line 1297: self.system.running.value = False. *)
L1297 ==
    /\ running
    /\ running' = FALSE
    /\ UNCHANGED <<acqrest, filter_window_size, sensor_queue, acqvars>>

AcqInit ==
    /\ SequencerIdle
    /\ CellIdle
    /\ LogIdle
    /\ ForceIdle
    /\ ApplyIdle
    /\ ProcIdle
    /\ MotorIdle
    /\ DrainIdle
    /\ logging_active = FALSE
    /\ running = TRUE
    /\ cycle_info = InitialCell
    /\ clock_queue = <<>>
    /\ command_queue = <<>>
    /\ sensor_queue = <<>>
    /\ logger = [NewLogger EXCEPT !.alive = FALSE]
    /\ motor_state = [m \in Motors |-> Stopped]
    /\ reading_history = <<>>
    /\ filter_window_size \in 1..MaxWindow
    /\ filtered = None
    /\ applied = FALSE
    /\ every = <<>>
    /\ PI_AVAILABLE \in BOOLEAN
    /\ load_cells \in {{LoadCellNames[i] : i \in 1..n} : n \in 0..3}
    /\ histories = [i \in 1..3 |-> <<>>]
    /\ latest_sensor_data = NoSensorData
    /\ sp = "L599"
    /\ acq = NewAcquisition

AcqNext ==
    \/ L599
    \/ \E got \in [1..3 -> IF PI_AVAILABLE THEN Weights \cup {Failure} ELSE Weights],
          fault \in {"none", "L602", "L609"} :
          L601(got, fault)
    \/ L1297

AcquisitionSpec == AcqInit /\ [][AcqNext]_vars

(* C23: in every frame the sensor process has stored or put on the sensor  *)
(* queue, thrust, lift and moment are all None when at least one of the    *)
(* three raw readings is None, and otherwise all present with thrust =     *)
(* raw[0], lift = (raw[1] + raw[2]) / 2 and moment = (raw[1] - raw[2]) *   *)
(* LEVER_ARM_LENGTH (Python indices).                                      *)
C23_ForcesAllOrNone ==
    \A f \in {sensor_queue[i].forces : i \in 1..Len(sensor_queue)}
             \cup (IF acq.stored > 0 THEN {latest_sensor_data} ELSE {}) :
        LET raw == f.raw_readings
        IN /\ Len(raw) = 3
           /\ IF \E i \in 1..3 : raw[i] = None
              THEN f.thrust = None /\ f.lift = None /\ f.moment = None
              ELSE /\ f.thrust = raw[1]
                   /\ f.lift = <<<<raw[2][1] + raw[3][1], 2>>>>
                   /\ f.moment = <<<<(raw[2][1] - raw[3][1]) * LEVER_ARM_LENGTH[1],
                                     LEVER_ARM_LENGTH[2]>>>>

(* Two frames on the queue: one with the three readings 1, 0 and -1, whose *)
(* lift is -1/2 and whose moment is 1/4, and one whose second load cell    *)
(* failed while the first gave 1, with no force at all.                    *)
C23_FrameWithAndWithout ==
    /\ Len(sensor_queue) = 2
    /\ sensor_queue[1].forces = [raw_readings |-> <<<<1>>, <<0>>, <<0 - 1>>>>,
                                 thrust |-> <<1>>,
                                 lift |-> <<<<0 - 1, 2>>>>,
                                 moment |-> <<<<1, 4>>>>]
    /\ sensor_queue[2].forces.raw_readings[1] = <<1>>
    /\ sensor_queue[2].forces.raw_readings[2] = None
    /\ sensor_queue[2].forces.thrust = None
    /\ sensor_queue[2].forces.lift = None
    /\ sensor_queue[2].forces.moment = None

(***************************************************************************)
(* The derivation of the forces from three readings, as the three files    *)
(* that have it write it: data_collection_GUI.py (forces above),           *)
(* raspberry-pi-gui.py and uart-data-collection.py.  Each is applied to a  *)
(* triple of readings and to the triple with its second and third reading  *)
(* swapped.                                                                *)
(***************************************************************************)
Readings == (0 - MaxReading)..MaxReading

forcerest == <<drainvars, motorvars, procvars, applyvars, seqvars, cellvars, logvars, filtervars, acqvars, logging_active, running,
               cycle_info, clock_queue, command_queue, sensor_queue, logger, motor_state>>

(* raw_readings of three numbers. *)
Present(t) == <<<<t[1]>>, <<t[2]>>, <<t[3]>>>>

Swapped(t) == <<t[1], t[3], t[2]>>

(* raspberry-pi-gui.py, lines 1138-1155. *)
forces_raspberry_pi_gui(raw_readings) ==
    IF (\A i \in 1..Len(raw_readings) : raw_readings[i] # None) /\ Len(raw_readings) = 3
    THEN [raw_readings |-> raw_readings,
          thrust |-> raw_readings[1],
          lift |-> <<TrueDiv(raw_readings[2][1] + raw_readings[3][1], 2)>>,
          moment |-> <<Times(raw_readings[2][1] - raw_readings[3][1], LEVER_ARM_LENGTH)>>]
    ELSE [raw_readings |-> raw_readings, thrust |-> None, lift |-> None, moment |-> None]

(* uart-data-collection.py, lines 47-64, where no exception is raised: the *)
(* moment is the sum of the second and third reading times                 *)
(* self.lever_arm_length.                                                  *)
forces_uart_data_collection(raw_readings) ==
    IF (\A i \in 1..Len(raw_readings) : raw_readings[i] # None) /\ Len(raw_readings) = 3
    THEN [raw_readings |-> raw_readings,
          thrust |-> raw_readings[1],
          lift |-> <<TrueDiv(raw_readings[2][1] + raw_readings[3][1], 2)>>,
          moment |-> <<Times(raw_readings[2][1] + raw_readings[3][1], lever_arm_length)>>]
    ELSE [raw_readings |-> raw_readings, thrust |-> None, lift |-> None, moment |-> None]

(* read_sensors of data_collection_GUI.py on both triples. *)
L443 ==
    /\ ~derived["data_collection_GUI"].done
    /\ derived' = [derived EXCEPT !["data_collection_GUI"] =
                      [done |-> TRUE, raised |-> FALSE,
                       direct |-> forces(Present(triple)).moment,
                       swapped |-> forces(Present(Swapped(triple))).moment]]
    /\ UNCHANGED <<forcerest, triple, lever_arm_length>>

(* read_sensors of raspberry-pi-gui.py on both triples. *)
L1146 ==
    /\ ~derived["raspberry-pi-gui"].done
    /\ derived' = [derived EXCEPT !["raspberry-pi-gui"] =
                      [done |-> TRUE, raised |-> FALSE,
                       direct |-> forces_raspberry_pi_gui(Present(triple)).moment,
                       swapped |-> forces_raspberry_pi_gui(Present(Swapped(triple))).moment]]
    /\ UNCHANGED <<forcerest, triple, lever_arm_length>>

(* read_sensors of uart-data-collection.py on both triples.  SensorNode    *)
(* never assigns self.lever_arm_length: unless its user has assigned it,   *)
(* line 64 raises AttributeError.                                          *)
L55 ==
    /\ ~derived["uart-data-collection"].done
    /\ derived' = [derived EXCEPT !["uart-data-collection"] =
                      IF lever_arm_length = <<>>
                      THEN [done |-> TRUE, raised |-> TRUE, direct |-> None, swapped |-> None]
                      ELSE [done |-> TRUE, raised |-> FALSE,
                            direct |-> forces_uart_data_collection(Present(triple)).moment,
                            swapped |->
                               forces_uart_data_collection(Present(Swapped(triple))).moment]]
    /\ UNCHANGED <<forcerest, triple, lever_arm_length>>

ForceInit ==
    /\ SequencerIdle
    /\ CellIdle
    /\ LogIdle
    /\ FilterIdle
    /\ AcqIdle
    /\ ApplyIdle
    /\ ProcIdle
    /\ MotorIdle
    /\ DrainIdle
    /\ logging_active = FALSE
    /\ running = TRUE
    /\ cycle_info = InitialCell
    /\ clock_queue = <<>>
    /\ command_queue = <<>>
    /\ sensor_queue = <<>>
    /\ logger = [NewLogger EXCEPT !.alive = FALSE]
    /\ motor_state = [m \in Motors |-> Stopped]
    /\ triple \in Readings \X Readings \X Readings
    /\ lever_arm_length \in {<<>>, LEVER_ARM_LENGTH}
    /\ derived = NotDerived

ForceNext ==
    \/ L443
    \/ L1146
    \/ L55

ForceSpec == ForceInit /\ [][ForceNext]_vars

(* C24: in every variant of the force computation, for three readings that *)
(* are all present, the moment is minus the moment of the readings with    *)
(* the second and third swapped.                                           *)
C24_MomentAntisymmetric ==
    \A v \in Variants :
        derived[v].done =>
            /\ ~derived[v].raised
            /\ derived[v].direct # None
            /\ derived[v].swapped # None
            /\ derived[v].direct[1] = <<0 - derived[v].swapped[1][1], derived[v].swapped[1][2]>>

(* C25: in a tick in which the read of a load cell fails, the frame has    *)
(* None for that load cell and its history stays as it was; every load     *)
(* cell whose read succeeds has its reading appended to its history and    *)
(* the median filter of that history in the frame, whatever happened in    *)
(* earlier ticks; and the frame is stored and put on the sensor queue.     *)
C25_FailedReadIsLocal ==
    [][(acq'.ticks = acq.ticks + 1 /\ acq'.fault = "none" /\ PI_AVAILABLE) =>
          /\ Len(sensor_queue') = Len(sensor_queue) + 1
          /\ latest_sensor_data' = sensor_queue'[Len(sensor_queue')].forces
          /\ \A i \in 1..3 :
                LET reading == sensor_queue'[Len(sensor_queue')].forces.raw_readings[i]
                IN /\ acq'.outcome[i] = "failed" =>
                         /\ reading = None
                         /\ histories'[i] = histories[i]
                   /\ acq'.outcome[i] = "read" =>
                         /\ reading # None
                         /\ histories'[i] # <<>>
                         /\ LET history == Append(histories[i],
                                                  histories'[i][Len(histories'[i])])
                            IN /\ reading = median_filter(history, filter_window_size)
                               /\ histories'[i] \in
                                     {history, SliceFrom(history, 0 - filter_window_size)}]_vars

(* Two ticks: in the first the second load cell failed while the other two *)
(* were read, in the second all three were read; the second load cell has  *)
(* the one reading of the second tick in its history.                      *)
C25_SecondCellFailedOnce ==
    /\ Len(sensor_queue) = 2
    /\ sensor_queue[1].forces.raw_readings[1] # None
    /\ sensor_queue[1].forces.raw_readings[2] = None
    /\ sensor_queue[1].forces.raw_readings[3] # None
    /\ sensor_queue[2].forces.raw_readings[2] = <<0 - 1>>
    /\ sensor_queue[2].forces.moment # None
    /\ histories[2] = <<0 - 1>>
    /\ Len(histories[1]) = 2

(* C26: the sensor process leaves its loop only in a step that finds the   *)
(* running flag false, so no error in a tick ends it; and every tick that  *)
(* completes without an error stores exactly one frame in                  *)
(* latest_sensor_data and puts exactly that one frame on the sensor queue. *)
C26_LoopEndsOnlyOnFlag ==
    [][/\ (sp' = "stopped" /\ sp # "stopped") => (sp = "L599" /\ ~running)
       /\ (acq'.ticks = acq.ticks + 1 /\ acq'.fault # "none") => sp' = "L599"
       /\ (acq'.ticks = acq.ticks + 1 /\ acq'.fault = "none") =>
             /\ sp' = "L599"
             /\ acq'.stored = acq.stored + 1
             /\ acq'.put = acq.put + 1
             /\ sensor_queue' = Append(sensor_queue, sensor_queue'[Len(sensor_queue')])
             /\ sensor_queue'[Len(sensor_queue')].timestamp = acq'.ticks
             /\ latest_sensor_data' = sensor_queue'[Len(sensor_queue')].forces]_vars

(* A tick raised, the next tick completed and published its frame, and the *)
(* loop ended after the flag was cleared.                                  *)
C26_StoppedAfterFaultAndFrame ==
    /\ sp = "stopped"
    /\ ~running
    /\ acq.ticks = 2
    /\ acq.faults = 1
    /\ acq.fault = "none"
    /\ Len(sensor_queue) = 1
    /\ sensor_queue[1].timestamp = 2

(***************************************************************************)
(* apply_wave_parameters, lines 2122-2159: the entries of the wave tab are *)
(* read and checked one after the other, and the five parameters are       *)
(* assigned after the last check.                                          *)
(***************************************************************************)
(* What the entries can hold: periods up to MaxEntry, and phases and      *)
(* latencies up to just beyond a half and a quarter of that.               *)
PeriodEntries == {0 - 1, 0, 2, MaxEntry}

PhaseEntries == (0 - 1)..((MaxEntry \div 2) + 1)

LatencyEntries == (0 - 1)..((MaxEntry \div 4) + 1)

SpeedEntries == {0, 1, 100, 101}

paramrest == <<drainvars, motorvars, procvars, wave_running, processes, thr, gui, ops, obs, lastIssuer, cellvars, logvars,
               filtervars, acqvars, forcevars, logging_active, running, cycle_info,
               clock_queue, command_queue, sensor_queue, logger, motor_state>>

(* The handler with the period assigned as soon as it has been checked. *)
apply_wave_parameters_early(per, ph, lat, spd, rev) ==
    LET ended == IF per <= 0 THEN "L2127"
                 ELSE IF ph < 0 \/ 2 * ph >= per THEN "L2133"
                 ELSE IF lat < 0 \/ 4 * lat >= per THEN "L2139"
                 ELSE IF spd <= 0 \/ spd > 100 THEN "L2145"
                 ELSE "applied"
    IN /\ attempt.n < MaxApplies
       /\ attempt' = [n |-> attempt.n + 1, entries |-> <<per, ph, lat, spd, rev>>,
                      ended |-> ended, before |-> params]
       /\ period' = IF ended = "L2127" THEN period ELSE per
       /\ IF ended = "applied"
          THEN /\ phase' = ph
               /\ latency' = lat
               /\ motor_speed' = spd
               /\ reverse' = rev
          ELSE UNCHANGED <<phase, latency, motor_speed, reverse>>
       /\ UNCHANGED paramrest

(* apply_wave_parameters with the entries holding per, ph, lat, spd and    *)
(* rev: it returns at the first check that fails (lines 2127, 2133, 2139,  *)
(* 2145) and otherwise assigns the five parameters (lines 2149-2153).      *)
(* phase >= period/2 is 2 * phase >= period.                               *)
apply_wave_parameters(per, ph, lat, spd, rev) ==
    LET ended == IF per <= 0 THEN "L2127"
                 ELSE IF ph < 0 \/ 2 * ph >= per THEN "L2133"
                 ELSE IF lat < 0 \/ 4 * lat >= per THEN "L2139"
                 ELSE IF spd <= 0 \/ spd > 100 THEN "L2145"
                 ELSE "applied"
    IN /\ attempt.n < MaxApplies
       /\ attempt' = [n |-> attempt.n + 1, entries |-> <<per, ph, lat, spd, rev>>,
                      ended |-> ended, before |-> params]
       /\ IF ended = "applied"
          THEN /\ period' = per
               /\ phase' = ph
               /\ latency' = lat
               /\ motor_speed' = spd
               /\ reverse' = rev
          ELSE UNCHANGED params
       /\ UNCHANGED paramrest

(* apply_wave_parameters with an entry that is not a number: get() or the  *)
(* conversion raises before line 2149, and nothing is assigned.            *)
L2157 ==
    /\ attempt.n < MaxApplies
    /\ attempt' = [n |-> attempt.n + 1, entries |-> attempt.entries, ended |-> "L2157",
                   before |-> params]
    /\ UNCHANGED <<params, paramrest>>

ParamInit ==
    /\ SequencerIdle
    /\ CellIdle
    /\ LogIdle
    /\ FilterIdle
    /\ AcqIdle
    /\ ForceIdle
    /\ ProcIdle
    /\ MotorIdle
    /\ DrainIdle
    /\ logging_active = FALSE
    /\ running = TRUE
    /\ cycle_info = InitialCell
    /\ clock_queue = <<>>
    /\ command_queue = <<>>
    /\ sensor_queue = <<>>
    /\ logger = [NewLogger EXCEPT !.alive = FALSE]
    /\ motor_state = [m \in Motors |-> Stopped]
    /\ attempt = NoAttempt

ParamNext ==
    \/ \E per \in PeriodEntries, ph \in PhaseEntries, lat \in LatencyEntries,
          spd \in SpeedEntries, rev \in BOOLEAN :
          apply_wave_parameters(per, ph, lat, spd, rev)
    \/ L2157

ParamSpec == ParamInit /\ [][ParamNext]_vars

(* C27: apply_wave_parameters accepts exactly the entries with period > 0, *)
(* 0 <= phase < period/2, 0 <= latency < period/4 and 1 <= speed <= 100:   *)
(* then the five parameters become the entries; in every other call none   *)
(* of the stored parameters changes.                                       *)
C27_AppliedExactlyWhenValid ==
    [][attempt'.n = attempt.n + 1 =>
          LET e == attempt'.entries
          IN IF /\ attempt'.ended # "L2157"
                /\ e[1] > 0
                /\ 0 <= e[2] /\ 2 * e[2] < e[1]
                /\ 0 <= e[3] /\ 4 * e[3] < e[1]
                /\ 1 <= e[4] /\ e[4] <= 100
             THEN /\ attempt'.ended = "applied"
                  /\ <<period', phase', latency', motor_speed', reverse'>> = e
             ELSE /\ attempt'.ended # "applied"
                  /\ params' = params]_vars

(* Period 5, phase 2, latency 1, speed 100 and reverse were applied, and a *)
(* later call with a latency of half the period left them.                 *)
C27_RejectedAfterApplied ==
    /\ attempt.n = 2
    /\ attempt.entries = <<2, 0, 1, 1, FALSE>>
    /\ attempt.ended = "L2139"
    /\ params = <<5, 2, 1, 100, TRUE>>

(***************************************************************************)
(* One run of the wave pattern from the Start button, with the cycles      *)
(* entry holding any number from 0 up (the Spinbox of line 1181 checks     *)
(* nothing that is typed into it, and start_wave_pattern, lines 1314-1331, *)
(* passes cycles_var.get() on as it is), and with the Apply button of the  *)
(* wave tab pressed while the run is in progress.  The steps of the thread *)
(* are those of Spec; nobody stops the run.                                *)
(***************************************************************************)
(* Parameter sets that apply_wave_parameters accepts. *)
AppliedChoices == {<<10, 1, 1, 100, TRUE>>, <<20, 5, 2, 70, FALSE>>, <<20, 2, 1, 1, FALSE>>}

(* The Start button, lines 1314-1327, with num_cycles entered. *)
start_wave_pattern_any(num_cycles) ==
    /\ thr = <<>>
    /\ StartWavePattern(num_cycles)

(* The Apply button during the run, after the thread has taken its        *)
(* direction and speed (lines 808-809) and driven the first motor.         *)
L2149 ==
    /\ thr # <<>>
    /\ thr[1].pc \notin {"start", "done"}
    /\ attempt.n = 0
    /\ \E e \in AppliedChoices : apply_wave_parameters(e[1], e[2], e[3], e[4], e[5])

WaveInit ==
    /\ SequencerIdle
    /\ CellIdle
    /\ LogIdle
    /\ FilterIdle
    /\ AcqIdle
    /\ ForceIdle
    /\ ApplyIdle
    /\ ProcIdle
    /\ MotorIdle
    /\ DrainIdle
    /\ logging_active = FALSE
    /\ running = TRUE
    /\ cycle_info = CycleRecord(FracZero, 0, FALSE)
    /\ clock_queue = <<>>
    /\ command_queue = <<>>
    /\ sensor_queue = <<>>
    /\ logger = [NewLogger EXCEPT !.alive = FALSE]
    /\ motor_state = [m \in Motors |-> Stopped]

WaveNext ==
    \/ \E t \in DOMAIN thr : L803(t)
    \/ \E t \in DOMAIN thr : L826(t)
    \/ \E t \in DOMAIN thr : L831(t)
    \/ \E t \in DOMAIN thr : L839(t)
    \/ \E t \in DOMAIN thr : L844(t)
    \/ \E t \in DOMAIN thr : L849(t)
    \/ \E t \in DOMAIN thr : L864(t)
    \/ \E t \in DOMAIN thr : L868(t)
    \/ \E t \in DOMAIN thr : L876(t)
    \/ \E t \in DOMAIN thr : L880(t)
    \/ \E t \in DOMAIN thr : L886(t)
    \/ \E t \in DOMAIN thr : L890(t)
    \/ \E t \in DOMAIN thr : L898(t)
    \/ \E t \in DOMAIN thr : L905(t)
    \/ \E t \in DOMAIN thr : L910(t)
    \/ \E t \in DOMAIN thr : L923(t)
    \/ \E t \in DOMAIN thr : L928(t)
    \/ \E t \in DOMAIN thr : L935(t)
    \/ \E t \in DOMAIN thr : L940(t)
    \/ \E t \in DOMAIN thr : L946(t)
    \/ \E t \in DOMAIN thr : L951(t)
    \/ \E t \in DOMAIN thr : L960(t)
    \/ \E t \in DOMAIN thr : L963(t)
    \/ \E t \in DOMAIN thr : Except(t)
    \/ \E t \in DOMAIN thr : Finally(t)
    \/ \E num_cycles \in 0..MaxCycles : start_wave_pattern_any(num_cycles)
    \/ L2149
    \/ LoggingProcess
    \/ Tick

WaveSpec == WaveInit /\ [][WaveNext]_vars

(* C28: a start with a cycle count below 1 begins no run: the thread of    *)
(* such a start, if there is one at all, issues no actuator command.       *)
C28_NoCommandWithoutCycles ==
    \A t \in DOMAIN thr :
        thr[t].num_cycles < 1 =>
            /\ \A m \in Motors : obs[t].lastCmd[m] = <<>>
            /\ motor_state = [m \in Motors |-> Stopped]

(* The wait that a thread begins on its way to pc, from the period, phase  *)
(* and latency p of the start of the run.                                  *)
WaitFor(pc, p) ==
    CASE pc \in {"L826", "L876", "L935"} -> p[2]
      [] pc \in {"L864", "L886", "L923", "L946"} -> p[3]
      [] pc \in {"L839", "L960"} -> (p[1] \div 2) - p[2] - p[3]
      [] pc = "L898" -> IF p[1] - p[2] - 2 * p[3] > 0 THEN p[1] - p[2] - 2 * p[3] ELSE 0

(* C29: the parameters of a run are those of its start: every wait a run   *)
(* begins lasts what the period, phase and latency stored when the run     *)
(* started give, and every command drives at the speed stored then,        *)
(* whatever has been applied since.                                        *)
C29_WaitsFromRunStart ==
    [][\A t \in DOMAIN thr :
          LET p == IF attempt.n = 0 THEN params ELSE attempt.before
          IN (/\ thr'[t].pc # thr[t].pc
              /\ thr'[t].pc \in {"L826", "L876", "L935", "L864", "L886", "L923", "L946",
                                 "L839", "L960", "L898"}
              /\ thr[t].pc \notin {"L826", "L876", "L935", "L864", "L886", "L923", "L946",
                                   "L839", "L960", "L898"})
             => /\ thr'[t].timer = WaitFor(thr'[t].pc, p)
                /\ thr'[t].speed = p[4]]_vars

(***************************************************************************)
(* The process buttons of the GUI: start_system_processes (lines           *)
(* 1279-1289), ensure_processes_running (lines 1254-1259) and              *)
(* stop_system_processes (lines 1291-1312).  self.processes holds the      *)
(* Process objects the GUI has created, here <<target, number>>; a worker  *)
(* is alive until its loop finds the running flag false.  A join has a     *)
(* timeout of a second: it returns whether or not the worker has ended.    *)
(***************************************************************************)
Targets == {"sensor", "logging"}

procrest == <<drainvars, motorvars, params, wave_running, thr, ops, obs, lastIssuer, cellvars, logvars,
              filtervars, acqvars, forcevars, applyvars, clock_queue, command_queue,
              sensor_queue, logger, motor_state>>

Called(name) == [n |-> last.n + 1, call |-> name, had |-> processes # {}]

(* start_system_processes without its test of self.processes. *)
L1279Unguarded ==
    /\ gui.pc = "idle"
    /\ last.n < MaxCalls
    /\ forked + 2 <= MaxForks
    /\ last' = Called("start_system_processes")
    /\ running' = TRUE
    /\ processes' = processes \cup {<<"sensor", forked + 1>>, <<"logging", forked + 2>>}
    /\ workers' = workers \cup {<<"sensor", forked + 1>>, <<"logging", forked + 2>>}
    /\ forked' = forked + 2
    /\ UNCHANGED <<procrest, gui, logging_active, cycle_info>>

(* start_system_processes, lines 1279-1289. *)
L1279 ==
    /\ gui.pc = "idle"
    /\ last.n < MaxCalls
    /\ last' = Called("start_system_processes")
    /\ IF processes = {}
       THEN /\ forked + 2 <= MaxForks
            /\ running' = TRUE
            /\ processes' = {<<"sensor", forked + 1>>, <<"logging", forked + 2>>}
            /\ workers' = workers \cup processes'
            /\ forked' = forked + 2
       ELSE UNCHANGED <<running, processes, workers, forked>>
    /\ UNCHANGED <<procrest, gui, logging_active, cycle_info>>

(* ensure_processes_running, lines 1254-1259. *)
L1254 ==
    /\ gui.pc = "idle"
    /\ last.n < MaxCalls
    /\ last' = Called("ensure_processes_running")
    /\ IF processes = {}
       THEN /\ forked + 2 <= MaxForks
            /\ running' = TRUE
            /\ processes' = {<<"sensor", forked + 1>>, <<"logging", forked + 2>>}
            /\ workers' = workers \cup processes'
            /\ forked' = forked + 2
       ELSE UNCHANGED <<running, processes, workers, forked>>
    /\ UNCHANGED <<procrest, gui, logging_active, cycle_info>>

(* stop_system_processes, lines 1291-1300: the flags are cleared (the     *)
(* flag wave_running is False throughout: no wave pattern runs here), and  *)
(* the handler goes on to join the processes.                              *)
L1291 ==
    /\ gui.pc = "idle"
    /\ last.n < MaxCalls
    /\ last' = Called("stop_system_processes")
    /\ IF processes # {}
       THEN /\ running' = FALSE
            /\ logging_active' = FALSE
            /\ cycle_info' = [cycle_info EXCEPT !.pattern_active = FALSE]
            /\ gui' = At("L1303")
       ELSE UNCHANGED <<running, logging_active, cycle_info, gui>>
    /\ UNCHANGED <<procrest, workers, processes, forked>>

(* Lines 1303-1307: the joins have returned, each because its process has  *)
(* ended or because its second has passed, and the list is emptied.        *)
L1303 ==
    /\ gui.pc = "L1303"
    /\ processes' = {}
    /\ gui' = Idle
    /\ UNCHANGED <<procrest, running, logging_active, cycle_info, workers, forked, last>>

(* A worker finds the running flag false and leaves its loop (lines 599    *)
(* and 652).                                                               *)
L599Stopped(w) ==
    /\ w \in workers
    /\ ~running
    /\ workers' = workers \ {w}
    /\ UNCHANGED <<procrest, gui, running, logging_active, cycle_info, processes, forked,
                   last>>

ProcInit ==
    /\ SequencerIdle
    /\ CellIdle
    /\ LogIdle
    /\ FilterIdle
    /\ AcqIdle
    /\ ForceIdle
    /\ ApplyIdle
    /\ MotorIdle
    /\ DrainIdle
    /\ logging_active = FALSE
    /\ running = TRUE
    /\ cycle_info = InitialCell
    /\ clock_queue = <<>>
    /\ command_queue = <<>>
    /\ sensor_queue = <<>>
    /\ logger = [NewLogger EXCEPT !.alive = FALSE]
    /\ motor_state = [m \in Motors |-> Stopped]
    /\ workers = {}
    /\ forked = 0
    /\ last = NoCall

ProcNext ==
    \/ L1279
    \/ L1254
    \/ L1291
    \/ L1303
    \/ \E w \in Targets \X (1..MaxForks) : L599Stopped(w)

ProcessSpec == ProcInit /\ [][ProcNext]_vars

C40_AtMostOneWorkerEach ==
    \A target \in Targets : Cardinality({w \in workers : w[1] = target}) <= 1

-----------------------------------------------------------------------------
(***************************************************************************)
(* set_motor (lines 460-510) statement by statement.  It is called by the  *)
(* wave thread and, from the buttons of the motor tab, by the GUI main     *)
(* thread; the two are threads of one process and take no lock, so their   *)
(* calls interleave between statements.  The statements that drive the     *)
(* pins (lines 477-507) change nothing that is recorded and are left out.  *)
(* The logging process takes the messages from command_queue (lines        *)
(* 663-665).                                                               *)
(***************************************************************************)
MotorNames == {"motor1", "motor2", "both"}
(* The commands of the call sites: a drive at the speed set, or a stop.     *)
Commands == {<<1, 70>>, <<0 - 1, 70>>, <<0, 0>>}

motorrest == <<drainvars, params, wave_running, logging_active, running, processes, cycle_info,
               clock_queue, sensor_queue, thr, gui, ops, obs, lastIssuer, cellvars,
               logvars, filtervars, acqvars, forcevars, applyvars, procvars>>

Others(c) == Callers \ {c}

(* update_motor_control_mode, lines 1261-1277: the radio buttons of the    *)
(* wave tab.                                                               *)
update_motor_control_mode(mode) ==
    /\ setting["operator"].pc = "idle"
    /\ use_pwm' = (mode = "PWM")
    /\ use_pwm' # use_pwm
    /\ UNCHANGED <<motorrest, motor_state, command_queue, logger, setting, issued, placed>>

(* Lines 463-470: the names addressed, and the speed forced to 100 in      *)
(* digital mode.                                                           *)
L463(c, motor_name, direction, speed) ==
    /\ setting[c].pc = "idle"
    /\ issued.n + Cardinality({o \in Callers : setting[o].pc # "idle"}) < MaxSets
    /\ LET overlap == \E o \in Others(c) : setting[o].pc # "idle"
       IN setting' = [o \in Callers |->
            IF o = c
            THEN [pc |-> "L473", motor_name |-> motor_name,
                  motor_names |-> IF motor_name = "both" THEN <<"motor1", "motor2">>
                                  ELSE <<motor_name>>,
                  direction |-> direction,
                  speed |-> IF ~use_pwm THEN 100 ELSE speed,
                  asked |-> speed, digital |-> ~use_pwm,
                  copy |-> [m \in Motors |-> Stopped],
                  before |-> motor_state, putsBefore |-> placed.n,
                  alone |-> ~overlap]
            ELSE [setting[o] EXCEPT !.alone = @ /\ setting[o].pc = "idle"]]
    /\ UNCHANGED <<motorrest, motor_state, command_queue, logger, use_pwm, issued, placed>>

(* Lines 473-474 with every motor written, whichever was addressed. *)
L473Every(c) ==
    /\ setting[c].pc = "L473"
    /\ motor_state' = [m \in Motors |->
                         [speed |-> setting[c].speed, direction |-> setting[c].direction]]
    /\ setting' = [setting EXCEPT ![c].motor_names = <<>>, ![c].pc = "L510"]
    /\ UNCHANGED <<motorrest, command_queue, logger, use_pwm, issued, placed>>

(* Lines 473-474: one turn of the loop over the names addressed. *)
L473(c) ==
    /\ setting[c].pc = "L473"
    /\ motor_state' = [motor_state EXCEPT ![Head(setting[c].motor_names)] =
                         [speed |-> setting[c].speed, direction |-> setting[c].direction]]
    /\ setting' = [setting EXCEPT
                     ![c].motor_names = Tail(@),
                     ![c].pc = IF Tail(setting[c].motor_names) = <<>> THEN "L510" ELSE @]
    /\ UNCHANGED <<motorrest, command_queue, logger, use_pwm, issued, placed>>

(* Line 510, the argument: self.motor_state.copy(). *)
L510(c) ==
    /\ setting[c].pc = "L510"
    /\ setting' = [setting EXCEPT ![c].copy = motor_state, ![c].pc = "put"]
    /\ UNCHANGED <<motorrest, motor_state, command_queue, logger, use_pwm, issued, placed>>

(* Line 510, the call: self.command_queue.put of the copy; set_motor       *)
(* returns.                                                                *)
L510Put(c) ==
    /\ setting[c].pc = "put"
    /\ command_queue' = Append(command_queue, setting[c].copy)
    /\ placed' = [n |-> placed.n + 1, message |-> setting[c].copy]
    /\ issued' = [n |-> issued.n + 1, by |-> c, motor_name |-> setting[c].motor_name,
                  direction |-> setting[c].direction, asked |-> setting[c].asked,
                  digital |-> setting[c].digital,
                  wrote |-> [speed |-> setting[c].speed,
                             direction |-> setting[c].direction],
                  before |-> setting[c].before, after |-> motor_state,
                  message |-> setting[c].copy,
                  puts |-> placed'.n - setting[c].putsBefore,
                  alone |-> setting[c].alone]
    /\ setting' = [setting EXCEPT ![c] = NoSetting]
    /\ UNCHANGED <<motorrest, motor_state, logger, use_pwm>>

(* Lines 663-665 of the logging process. *)
L663 ==
    /\ command_queue # <<>>
    /\ logger' = [logger EXCEPT !.motor_commands = Head(command_queue)]
    /\ command_queue' = Tail(command_queue)
    /\ UNCHANGED <<motorrest, motor_state, use_pwm, setting, issued, placed>>

MotorInit ==
    /\ SequencerIdle
    /\ CellIdle
    /\ LogIdle
    /\ FilterIdle
    /\ AcqIdle
    /\ ForceIdle
    /\ ApplyIdle
    /\ ProcIdle
    /\ DrainIdle
    /\ logging_active = FALSE
    /\ running = TRUE
    /\ cycle_info = InitialCell
    /\ clock_queue = <<>>
    /\ command_queue = <<>>
    /\ sensor_queue = <<>>
    /\ logger = NewLogger
    /\ motor_state = [m \in Motors |-> Stopped]
    /\ use_pwm = TRUE
    /\ setting = [c \in Callers |-> NoSetting]
    /\ issued = NoneIssued
    /\ placed = NonePlaced

MotorNext ==
    \/ \E mode \in {"PWM", "Digital"} : update_motor_control_mode(mode)
    \/ \E c \in Callers, motor_name \in MotorNames, command \in Commands :
          L463(c, motor_name, command[1], command[2])
    \/ \E c \in Callers : L473(c)
    \/ \E c \in Callers : L510(c)
    \/ \E c \in Callers : L510Put(c)
    \/ L663

MotorSpec == MotorInit /\ [][MotorNext]_vars

Addressed(call) == IF call.motor_name = "both" THEN Motors ELSE {call.motor_name}

(* C32: in digital mode a call of set_motor records, for the motors it     *)
(* addresses, the speed 100 when its direction is not 0 and the speed 0    *)
(* when it is a stop, and the message it puts says the same when no other  *)
(* call ran beside it.                                                     *)
C32_DigitalSpeedIsBinary ==
    (issued.n > 0 /\ issued.digital)
    => LET binary == IF issued.direction # 0 THEN 100 ELSE 0
       IN /\ issued.wrote = [speed |-> binary, direction |-> issued.direction]
          /\ (issued.alone
              => \A m \in Addressed(issued) :
                    issued.message[m] = [speed |-> binary,
                                         direction |-> issued.direction])

(* C37: a call of set_motor that no other call ran beside replaces the     *)
(* recorded state of the motors it addresses (one, or both for 'both') by  *)
(* its direction and the speed it set, leaves the other motor's as it was, *)
(* and puts exactly one message, which is the recorded state of both       *)
(* motors when the call returns.                                           *)
C37_OnlyTheAddressedMotor ==
    (issued.n > 0 /\ issued.alone)
    => /\ \A m \in Motors :
            issued.after[m] = IF m \in Addressed(issued) THEN issued.wrote
                              ELSE issued.before[m]
       /\ issued.wrote.direction = issued.direction
       /\ issued.wrote.speed = IF issued.digital THEN 100 ELSE issued.asked
       /\ issued.puts = 1
       /\ issued.message = issued.after

(* motor2 was driven, then motor1 alone was stopped: motor2 is as the      *)
(* first call left it.                                                     *)
C37_OneThenTheOther ==
    /\ issued.n = 2 /\ issued.alone
    /\ issued.motor_name = "motor1" /\ issued.direction = 0
    /\ issued.before["motor2"] = [speed |-> 70, direction |-> 1]
    /\ motor_state = [motor1 |-> Stopped, motor2 |-> [speed |-> 70, direction |-> 1]]
    /\ placed = [n |-> 2, message |-> motor_state]

(* C39: when no call of set_motor is in progress, the last message put on  *)
(* command_queue is the recorded state of both motors, and so is what the  *)
(* logging process holds once it has emptied the queue.                    *)
C39_LastMessageIsFinalState ==
    (placed.n > 0 /\ \A c \in Callers : setting[c].pc = "idle")
    => /\ placed.message = motor_state
       /\ (command_queue = <<>> => logger.motor_commands = motor_state)

-----------------------------------------------------------------------------
(***************************************************************************)
(* One run of the wave pattern, from the Start button to the end of the    *)
(* thread, on every set of parameters that apply_wave_parameters accepts   *)
(* within the bounds, with the Stop button pressed at any moment or not at *)
(* all.  Periods are even numbers of ticks, so that period / 2 is a whole  *)
(* number of ticks.                                                        *)
(***************************************************************************)
RunPeriods == {4, 10}

RunChoices ==
    {p \in RunPeriods \X (0..MaxPhase) \X (0..MaxLatency) :
        ValidWaveParameters(p[1], p[2], p[3], 70)}

RunInit ==
    /\ \E p \in RunChoices : period = p[1] /\ phase = p[2] /\ latency = p[3]
    /\ motor_speed \in Speeds
    /\ reverse \in BOOLEAN
    /\ wave_running = FALSE
    /\ logging_active = FALSE
    /\ running = TRUE
    /\ processes = {}
    /\ cycle_info = CycleRecord(FracZero, 0, FALSE)
    /\ clock_queue = <<>>
    /\ command_queue = <<>>
    /\ sensor_queue = <<>>
    /\ logger = [NewLogger EXCEPT !.alive = FALSE]
    /\ motor_state = [m \in Motors |-> Stopped]
    /\ thr = <<>>
    /\ gui = Idle
    /\ ops = 0
    /\ obs = <<>>
    /\ lastIssuer = [by |-> 0, newest |-> 0, direction |-> 0]
    /\ CellIdle
    /\ LogIdle
    /\ FilterIdle
    /\ AcqIdle
    /\ ForceIdle
    /\ ApplyIdle
    /\ ProcIdle
    /\ MotorIdle
    /\ DrainIdle

RunNext ==
    \/ \E t \in DOMAIN thr : L803(t)
    \/ \E t \in DOMAIN thr : L826(t)
    \/ \E t \in DOMAIN thr : L831(t)
    \/ \E t \in DOMAIN thr : L839(t)
    \/ \E t \in DOMAIN thr : L844(t)
    \/ \E t \in DOMAIN thr : L849(t)
    \/ \E t \in DOMAIN thr : L864(t)
    \/ \E t \in DOMAIN thr : L868(t)
    \/ \E t \in DOMAIN thr : L876(t)
    \/ \E t \in DOMAIN thr : L880(t)
    \/ \E t \in DOMAIN thr : L886(t)
    \/ \E t \in DOMAIN thr : L890(t)
    \/ \E t \in DOMAIN thr : L898(t)
    \/ \E t \in DOMAIN thr : L905(t)
    \/ \E t \in DOMAIN thr : L910(t)
    \/ \E t \in DOMAIN thr : L923(t)
    \/ \E t \in DOMAIN thr : L928(t)
    \/ \E t \in DOMAIN thr : L935(t)
    \/ \E t \in DOMAIN thr : L940(t)
    \/ \E t \in DOMAIN thr : L946(t)
    \/ \E t \in DOMAIN thr : L951(t)
    \/ \E t \in DOMAIN thr : L960(t)
    \/ \E t \in DOMAIN thr : L963(t)
    \/ \E t \in DOMAIN thr : Return(t)
    \/ \E t \in DOMAIN thr : Except(t)
    \/ \E t \in DOMAIN thr : Finally(t)
    \/ \E num_cycles \in 1..MaxCycles : start_wave_pattern_any(num_cycles)
    \/ StopWavePattern
    \/ L1009
    \/ LoggingProcess
    \/ Tick

RunSpec == RunInit /\ [][RunNext]_vars

(* The thread issues a command in this step; its name is the motor named.  *)
Commands1(t, name) ==
    /\ obs'[t].cmds = obs[t].cmds + 1
    /\ obs'[t].lastName = name

(* C33: a run that was not stopped has ended having slept, in all,         *)
(* period / 2 + num_cycles * period + period / 2.                          *)
C33_WaitsSumToWholePeriods ==
    \A t \in DOMAIN thr :
        (thr[t].pc = "done" /\ ~obs[t].stopReq /\ ~obs[t].sawFalse)
        => obs[t].waited = (period \div 2) + thr[t].num_cycles * period + (period \div 2)

(* C34: when a run drives a motor in the direction opposite to the one it  *)
(* drove it in last, its command before that was a stop (0, 0) of the same *)
(* motor, and the sleep between the two was `latency` long and is over.    *)
C34_StopAndLatencyBeforeReversal ==
    [][\A t \in DOMAIN obs : \A m \in Motors :
        (/\ Commands1(t, m)
         /\ obs'[t].lastCmd[m][1] # 0
         /\ obs[t].lastDrive[m] = 0 - obs'[t].lastCmd[m][1])
        => (/\ obs[t].lastName = m
            /\ obs[t].lastCmd[m] = <<0, 0>>
            /\ obs[t].lastWait = latency
            /\ thr[t].timer = 0)]_vars

(* A run of two cycles has ended: each motor was reversed three times.     *)
C34_ReversedThreeTimes ==
    /\ thr # <<>> /\ thr[1].pc = "done"
    /\ latency > 0
    /\ obs[1].cycles = 2 /\ obs[1].rampDowns = 1
    /\ obs[1].cmds = 2 + 4 * 3 + 2

(* C35: the first command of a run drives motor1, in direction -1 when     *)
(* reverse is set and +1 otherwise; each later drive of motor1 is in the   *)
(* direction opposite to its last; motor2 is commanded after motor1 was    *)
(* driven and a sleep of `phase` has passed; and motor2 is driven in the   *)
(* direction and at the speed motor1 was driven last.                      *)
C35_SecondMotorFollowsFirst ==
    [][\A t \in DOMAIN obs :
        /\ (obs[t].cmds = 0 /\ obs'[t].cmds = 1)
           => (/\ obs'[t].lastName = "motor1"
               /\ obs'[t].lastCmd["motor1"] = <<IF reverse THEN 0 - 1 ELSE 1, motor_speed>>
               /\ obs'[t].lastCmd["motor2"] = <<>>)
        /\ (/\ Commands1(t, "motor1")
            /\ obs'[t].lastCmd["motor1"][1] # 0
            /\ obs[t].lastDrive["motor1"] # 0)
           => obs'[t].lastCmd["motor1"][1] = 0 - obs[t].lastDrive["motor1"]
        /\ (Commands1(t, "motor2") /\ obs[t].lastName # "motor2")
           => (/\ obs[t].lastName = "motor1"
               /\ obs[t].lastCmd["motor1"][1] # 0
               /\ obs[t].lastWait = phase
               /\ thr[t].timer = 0)
        /\ (Commands1(t, "motor2") /\ obs'[t].lastCmd["motor2"][1] # 0)
           => obs'[t].lastCmd["motor2"] = obs[t].lastCmd["motor1"]]_vars

(* A reversed run of two cycles has ended: it began at -1 and, after three *)
(* reversals, drove both motors at +1 last.                                *)
C35_ReversedRunEnded ==
    /\ thr # <<>> /\ thr[1].pc = "done"
    /\ reverse /\ phase > 0
    /\ obs[1].cycles = 2 /\ obs[1].rampDowns = 1
    /\ obs[1].lastDrive = [m \in Motors |-> 1]

(* C38: on every set of parameters that is accepted, the lengths of the    *)
(* sleeps the thread computes (phase, latency, period / 2 - phase -        *)
(* latency, period - phase - 2 * latency) are not negative, and no run     *)
(* raises an exception (the runs here have a cycle at least, so that a     *)
(* sleep is all that can raise).                                           *)
C38_NoNegativeWait ==
    \A t \in DOMAIN thr :
        /\ thr[t].pc \in {"L826", "L876", "L935"} => phase >= 0
        /\ thr[t].pc \in {"L864", "L886", "L923", "L946"} => latency >= 0
        /\ thr[t].pc \in {"L831", "L951"} => (period \div 2) - phase - latency >= 0
        /\ thr[t].pc = "L890" => period - phase - 2 * latency >= 0
        /\ ~obs[t].faulted

(* C36: the messages on command_queue are all put by one producer (and so  *)
(* are taken by the logging process, its one consumer, in the order in     *)
(* which that producer published them).                                    *)
C36_OneProducerPerStream ==
    [][(issued.n > 0 /\ issued'.n = issued.n + 1) => issued'.by = issued.by]_vars

-----------------------------------------------------------------------------
(***************************************************************************)
(* The process buttons with the loops of the worker processes.  A sensor   *)
(* process puts a frame on sensor_queue in each pass of its loop (lines    *)
(* 599-611).  A logging process tests the running flag (line 652), then    *)
(* asks whether sensor_queue is empty (line 668) and, if it is not, takes  *)
(* a frame with get(), which waits until there is one (line 669).  No wave *)
(* pattern runs here: clock_queue and command_queue stay empty and the     *)
(* tests of lines 660 and 664 fail.                                        *)
(***************************************************************************)
drainrest == <<motorvars, params, wave_running, thr, ops, obs, lastIssuer, cellvars,
               logvars, filtervars, acqvars, forcevars, applyvars, clock_queue,
               command_queue, logger, motor_state, gui, running, logging_active,
               cycle_info, processes, forked, last>>

(* Lines 599-611: a pass of the sensor loop. *)
L599Pass(w) ==
    /\ w \in workers /\ w[1] = "sensor"
    /\ running
    /\ Len(sensor_queue) < MaxQueued
    /\ sensor_queue' = Append(sensor_queue, w[2])
    /\ UNCHANGED <<drainrest, workers, where>>

(* Line 652: `while self.running.value`. *)
L652(w) ==
    /\ w \in workers /\ w[1] = "logging"
    /\ where[w] = "loop"
    /\ IF running
       THEN /\ where' = [where EXCEPT ![w] = "L668"]
            /\ UNCHANGED workers
       ELSE /\ workers' = workers \ {w}
            /\ UNCHANGED where
    /\ UNCHANGED <<drainrest, sensor_queue>>

(* Line 668: `if not self.sensor_queue.empty()`. *)
L668(w) ==
    /\ w \in workers
    /\ where[w] = "L668"
    /\ where' = [where EXCEPT ![w] = IF sensor_queue # <<>> THEN "L669" ELSE "loop"]
    /\ UNCHANGED <<drainrest, sensor_queue, workers>>

(* Line 669: `sensor_data = self.sensor_queue.get()`, which waits for a    *)
(* frame; the rest of the pass follows.                                    *)
L669(w) ==
    /\ w \in workers
    /\ where[w] = "L669"
    /\ sensor_queue # <<>>
    /\ sensor_queue' = Tail(sensor_queue)
    /\ where' = [where EXCEPT ![w] = "loop"]
    /\ UNCHANGED <<drainrest, workers>>

DrainInit == ProcInit

(* The steps of the worker processes. *)
WorkerStep ==
    \E w \in Targets \X (1..MaxForks) :
        \/ L599Pass(w)
        \/ w[1] = "sensor" /\ L599Stopped(w)
        \/ L652(w)
        \/ L668(w)
        \/ L669(w)

DrainNext ==
    \/ L1279
    \/ L1254
    \/ L1291
    \/ L1303
    \/ \E w \in Targets \X (1..MaxForks) : L599Pass(w)
    \/ \E w \in Targets \X (1..MaxForks) : w[1] = "sensor" /\ L599Stopped(w)
    \/ \E w \in Targets \X (1..MaxForks) : L652(w)
    \/ \E w \in Targets \X (1..MaxForks) : L668(w)
    \/ \E w \in Targets \X (1..MaxForks) : L669(w)

DrainSpec == DrainInit /\ [][DrainNext]_vars

(* The operating system gives every process that can take a step a turn.   *)
FairDrainSpec == DrainSpec /\ WF_vars(WorkerStep)

(* C31: stop_system_processes, called with processes started, clears the   *)
(* flags running, logging_active and wave_running; and from any moment at  *)
(* which the running flag is clear (it is set again only by a start),      *)
(* either every worker process comes to leave its loop or a start follows. *)
C31_StoppedWorkersExit ==
    /\ [][(/\ last'.n = last.n + 1
           /\ last'.call = "stop_system_processes"
           /\ last'.had)
          => (~running' /\ ~logging_active' /\ ~wave_running')]_vars
    /\ (~running) ~> (workers = {} \/ running)

=============================================================================
